---- MODULE Spec2Model ----
(***************************************************************************)
(* Transactional core of the multi-currency payment backend: double-entry  *)
(* ledger, same-currency transfers, four-leg FX exchanges, deposit         *)
(* webhooks and the payout lifecycle (request, claim, dispatch, finalize,  *)
(* stale recovery, manual review).                                         *)
(*                                                                         *)
(* The database is modelled at READ COMMITTED with row locks.  A client    *)
(* request is a process that opens a DB transaction, takes its row locks   *)
(* one statement at a time (blocking on a held lock) and then runs the     *)
(* rest of its statements and commits.  Statements are operators over a    *)
(* database value d and return [ok, err, db]; RunInTx keeps the result of  *)
(* a successful body and the untouched database otherwise.                 *)
(***************************************************************************)
EXTENDS Integers, Sequences, FiniteSets, Bags, TLC

\* ------------------------------------------------------------------ bounds
NumClients == 2      \* concurrent client requests (HTTP handler tasks)
NumWorkers == 2      \* payout worker instances sharing the database
MaxRef     == 2      \* distinct reference ids clients may use
MaxAmount  == 2      \* largest amount in micros of a request
BatchSize  == 2      \* batch_size the workers pass to ProcessPayouts
MaxFaults  == 1      \* shutdowns and recovery-window expiries in one run
MaxStopCalls == 2    \* calls of Stop() on one background worker
MaxBatches == 2      \* batches one background worker runs

\* -------------------------------------------------------- accounts (seed)
\* Account ids are ordered like the uuid strings the code compares: one user
\* id sorts below the system liquidity accounts, the others above.
Alice   == 1
SysUSD  == 2
SysEUR  == 3
Bob     == 4
Carol   == 5

Accounts       == {Alice, SysUSD, SysEUR, Bob, Carol}
SystemAccounts == {SysUSD, SysEUR}
UserAccounts   == Accounts \ SystemAccounts
Currencies     == {"USD", "EUR"}

AccountCurrency(a) == IF a \in {Alice, SysUSD, Bob} THEN "USD" ELSE "EUR"

InitBalance(a) == IF a \in {Alice, Bob} THEN 2 ELSE 0

Clients == 1..NumClients
Workers == (NumClients + 1)..(NumClients + NumWorkers)
\* reference_id is unique, so there are never more transactions than references.
TxIds   == 1..MaxRef
Refs    == 1..MaxRef
Amounts == 1..MaxAmount

\* The two background workers of the worker package.
BackgroundWorkers == {"payout", "reconciliation"}

NoTx     == [status |-> "NONE", type |-> "none", amount |-> 0, currency |-> "", ref |-> 0]
NoPayout == [status |-> "NONE", account |-> 0, amount |-> 0, gatewayRef |-> "null"]

VARIABLES
    balance,      \* accounts.balance
    locked,       \* accounts.locked_micros
    tx,           \* transactions, by id
    payout,       \* payouts, by the id of their transaction (1:1)
    entries,      \* ledger entries (append-only bag)
    audit,        \* audit_log rows (append-only bag)
    updOrder,     \* the PROCESSING payouts in ascending updated_at order
    stale,        \* the PROCESSING payouts whose updated_at is older than the recovery window
    acctLock,     \* holder of each account row lock (0 = free)
    payLock,      \* holder of each payout row lock (0 = free)
    client,       \* per client task: the request in flight
    resp,         \* per client task: outcome of its last finished request
    payoutResp,   \* per client task: the PayoutResponse it returned, if any
    wpc,          \* per worker: position inside ProcessPayouts
    claimed,      \* per worker: claimed payouts not yet finalized (head = current)
    ctxCancelled, \* per worker: the context passed to ProcessPayouts is cancelled
    sendCount,    \* gateway: number of SendPayout calls received per payout
    gwOk,         \* gateway: SendPayout has returned success for the payout
    reviewLog,    \* payouts with the error log "succeeded at gateway but local finalization failed"
    gwTimedOut,   \* gateway: SendPayout timed out for the payout after the request was sent
    faults,       \* environment: cancellations and window expiries so far
    idem,         \* idempotency_keys rows, by idempotency key
    redis,        \* the cache: envelope stored under each idempotency key
    http,         \* per client task: its HTTP request inside IdempotencyMiddleware
    handlerRuns,  \* per idempotency key: times the wrapped handler was entered
    stopCh,       \* per background worker: its stop channel
    stopOnce,     \* per background worker: its sync.Once has run (reconciliation worker)
    startPc,      \* per background worker: the goroutine running Start
    batches,      \* per background worker: runOnce / processBatch calls so far
    stopCalls,    \* per background worker: calls of Stop() so far
    stopPanic,    \* per background worker: a Stop() call panicked
    runCtxDone    \* the context passed to Run is cancelled

dbVars   == <<balance, locked, tx, payout, entries, audit, updOrder, stale>>
lockVars == <<acctLock, payLock>>
cliVars  == <<client, resp, payoutResp>>
wrkVars  == <<wpc, claimed, ctxCancelled>>
gwVars   == <<sendCount, gwOk, reviewLog, gwTimedOut>>
httpVars == <<idem, redis, http, handlerRuns>>
stopVars == <<stopCh, stopOnce, startPc, batches, stopCalls, stopPanic, runCtxDone>>
vars     == <<balance, locked, tx, payout, entries, audit, updOrder, stale,
              acctLock, payLock, client, resp, payoutResp, wpc, claimed, ctxCancelled,
              sendCount, gwOk, reviewLog, gwTimedOut, faults, idem, redis, http,
              handlerRuns, stopCh, stopOnce, startPc, batches, stopCalls, stopPanic,
              runCtxDone>>

\* --------------------------------------------------------- database value
DB == [balance |-> balance, locked |-> locked, tx |-> tx, payout |-> payout,
       entries |-> entries, audit |-> audit, updOrder |-> updOrder,
       stale |-> stale]

Install(d) ==
    /\ balance' = d.balance
    /\ locked' = d.locked
    /\ tx' = d.tx
    /\ payout' = d.payout
    /\ entries' = d.entries
    /\ audit' = d.audit
    /\ updOrder' = d.updOrder
    /\ stale' = d.stale

Ok(d)       == [ok |-> TRUE, err |-> "", db |-> d]
Fail(d, e)  == [ok |-> FALSE, err |-> e, db |-> d]

\* Sequencing with early return on error.
Then(r, F(_)) == IF r.ok THEN F(r.db) ELSE r

\* Mutant: the writes made before the error are kept.
RunInTxNoRollback(d, r) == r

\* RunInTx: commit on nil, roll back on error.
\* r is the result of fn on the database d the transaction began with.
RunInTx(d, r) == IF r.ok THEN r ELSE Fail(d, r.err)

requireExactlyOne(rows) == rows = 1

\* ------------------------------------------------------ schema constraints
\* Mutant: the CHECK constraint on locked_micros is missing.
locked_unchecked(v) == TRUE

accounts_locked_nonnegative_ck(v) == v >= 0
transactions_amount_positive_ck(v) == v > 0
entries_amount_positive_ck(v) == v > 0
payouts_amount_positive_ck(v) == v > 0

\* ------------------------------------------------------------- statements
LockAccountFunds(d, a, amt) ==
    IF accounts_locked_nonnegative_ck(d.locked[a] + amt)
    THEN Ok([d EXCEPT !.locked[a] = @ + amt])
    ELSE Fail(d, "check_violation")

ReleaseAccountFunds(d, a, amt) ==
    IF accounts_locked_nonnegative_ck(d.locked[a] - amt)
    THEN Ok([d EXCEPT !.locked[a] = @ - amt])
    ELSE Fail(d, "check_violation")

\* UPDATE ... WHERE id = $2 AND locked_micros >= $1 : affects 0 or 1 row.
ReleaseAccountFundsSafeRows(d, a, amt) == IF d.locked[a] >= amt THEN 1 ELSE 0

ReleaseAccountFundsSafe(d, a, amt) ==
    IF d.locked[a] >= amt
    THEN Ok([d EXCEPT !.locked[a] = @ - amt])
    ELSE Ok(d)

\* Mutant: the lock is consumed and the balance is left as it was.
DeductLockedOnly(d, a, amt) ==
    IF accounts_locked_nonnegative_ck(d.locked[a] - amt)
    THEN Ok([d EXCEPT !.locked[a] = @ - amt])
    ELSE Fail(d, "check_violation")

DeductLockedFunds(d, a, amt) ==
    IF accounts_locked_nonnegative_ck(d.locked[a] - amt)
    THEN Ok([d EXCEPT !.locked[a] = @ - amt, !.balance[a] = @ - amt])
    ELSE Fail(d, "check_violation")

UpdateAccountBalance(d, a, delta) ==
    Ok([d EXCEPT !.balance[a] = @ + delta])

RefTaken(d, ref) == \E t \in TxIds : d.tx[t].status # "NONE" /\ d.tx[t].ref = ref

\* SELECT ... FROM transactions WHERE reference_id = $1  (0 = no rows)
CheckTransactionIdempotency(d, ref) ==
    IF RefTaken(d, ref)
    THEN CHOOSE t \in TxIds : d.tx[t].status # "NONE" /\ d.tx[t].ref = ref
    ELSE 0

\* Mutant: transactions.reference_id without its unique index.
CreateTransactionNoUnique(d, t, amt, currency, type, status, ref) ==
    IF ~transactions_amount_positive_ck(amt) THEN Fail(d, "check_violation")
    ELSE Ok([d EXCEPT !.tx[t] = [status |-> status, type |-> type, amount |-> amt,
                                  currency |-> currency, ref |-> ref]])

CreateTransaction(d, t, amt, currency, type, status, ref) ==
    IF RefTaken(d, ref) THEN Fail(d, "unique_violation")
    ELSE IF ~transactions_amount_positive_ck(amt) THEN Fail(d, "check_violation")
    ELSE Ok([d EXCEPT !.tx[t] = [status |-> status, type |-> type, amount |-> amt,
                                  currency |-> currency, ref |-> ref]])

CreateEntry(d, t, a, amt, direction) ==
    IF entries_amount_positive_ck(amt)
    THEN Ok([d EXCEPT !.entries = @ (+) SetToBag({[tx |-> t, account |-> a,
                                      amount |-> amt, direction |-> direction]})])
    ELSE Fail(d, "check_violation")

InsertAuditLog(d, t, action, prev, next) ==
    Ok([d EXCEPT !.audit = @ (+) SetToBag({[tx |-> t, action |-> action,
                                             prev |-> prev, next |-> next]})])

UpdateTransactionStatus(d, t, status) ==
    Ok([d EXCEPT !.tx[t].status = status])

RECURSIVE Remove(_, _)
Remove(s, x) ==
    IF s = <<>> THEN <<>>
    ELSE IF Head(s) = x THEN Remove(Tail(s), x)
    ELSE <<Head(s)>> \o Remove(Tail(s), x)

InsertPayout(d, p, a, amt) ==
    IF payouts_amount_positive_ck(amt)
    THEN Ok([d EXCEPT !.payout[p] = [status |-> "PENDING", account |-> a,
                                      amount |-> amt, gatewayRef |-> "null"]])
    ELSE Fail(d, "check_violation")

\* UPDATE payouts SET status = $1, gateway_ref = $2, updated_at = NOW() WHERE id = $3
\* The row becomes the most recently updated one and is no longer stale.
UpdatePayoutStatus(d, p, status, ref) ==
    Ok([d EXCEPT !.payout[p].status = status,
                 !.payout[p].gatewayRef = ref,
                 !.updOrder = IF status = "PROCESSING"
                              THEN Append(Remove(@, p), p)
                              ELSE Remove(@, p),
                 !.stale = @ \ {p}])

\* ----------------------------------------------------------- state machine
transactionTransitions ==
    [s \in {"PENDING", "PROCESSING", "COMPLETED", "FAILED", "REVERSED"} |->
        CASE s = "PENDING"    -> {"PROCESSING", "FAILED"}
          [] s = "PROCESSING" -> {"PENDING", "COMPLETED", "FAILED", "REVERSED"}
          [] s = "COMPLETED"  -> {"REVERSED"}
          [] s = "FAILED"     -> {"PROCESSING", "REVERSED"}
          [] s = "REVERSED"   -> {}]

\* Mutant: every change of status is allowed.
canTransitionAny(current, next) == TRUE

canTransition(current, next) ==
    /\ current \in DOMAIN transactionTransitions
    /\ next \in transactionTransitions[current]

transitionTransactionState(d, t, nextState, action) ==
    IF t \notin TxIds \/ d.tx[t].status = "NONE" THEN Fail(d, "no_rows")
    ELSE IF d.tx[t].status = nextState THEN Ok(d)
    ELSE IF ~canTransition(d.tx[t].status, nextState) THEN Fail(d, "invalid_transition")
    ELSE Then(UpdateTransactionStatus(d, t, nextState),
              LAMBDA x : InsertAuditLog(x, t, action, d.tx[t].status, nextState))

getSystemAccountID(currency) == IF currency = "USD" THEN SysUSD ELSE SysEUR

\* ------------------------------------------------------------------ money
\* GetExchangeRate: rate = target / source over the USD-based table
\* (USD 1.0, EUR 0.92), as the fraction RateNum / RateDen.
RateNum(fromCur, toCur) ==
    IF fromCur = toCur THEN 1 ELSE IF toCur = "EUR" THEN 92 ELSE 100
RateDen(fromCur, toCur) ==
    IF fromCur = toCur THEN 1 ELSE IF fromCur = "EUR" THEN 92 ELSE 100

\* Mutant: the product is rounded to the nearest micro.
ConvertRounded(amt, fromCur, toCur) ==
    (2 * amt * RateNum(fromCur, toCur) + RateDen(fromCur, toCur))
       \div (2 * RateDen(fromCur, toCur))

\* Money.Convert: decimal product, then IntPart (truncation toward zero).
Convert(amt, fromCur, toCur) ==
    (amt * RateNum(fromCur, toCur)) \div RateDen(fromCur, toCur)

\* ------------------------------------------------------- lock-order helpers
RECURSIVE dedupeUUIDs(_)
dedupeUUIDs(ids) ==
    IF ids = <<>> THEN <<>>
    ELSE LET front == SubSeq(ids, 1, Len(ids) - 1)
             last  == ids[Len(ids)]
             out   == dedupeUUIDs(front)
         IN IF \E i \in 1..Len(front) : front[i] = last THEN out
            ELSE Append(out, last)

\* for i { for j > i { if ids[i] > ids[j] swap } } : position 1 receives the
\* minimum, then the rest is sorted the same way.
RECURSIVE sortUUIDs(_)
sortUUIDs(ids) ==
    IF Len(ids) <= 1 THEN ids
    ELSE LET m == CHOOSE x \in {ids[i] : i \in 1..Len(ids)} :
                      \A y \in {ids[i] : i \in 1..Len(ids)} : x <= y
         IN <<m>> \o sortUUIDs(Remove(ids, m))

AcctRes(a) == <<"acct", a>>
PayRes(p)  == <<"pay", p>>
AcctLocks(ids) == [i \in 1..Len(ids) |-> AcctRes(ids[i])]

\* Mutant: the accounts are locked in request order (from, then to).
TransferLockOrderAsGiven(from, to) == <<from, to>>

\* Transfer: LockAccount(account1), LockAccount(account2), lower id first.
TransferLockOrder(from, to) ==
    IF from > to THEN <<to, from>> ELSE <<from, to>>

\* TransferExchange: dedupe, sort, LockAccount each.
ExchangeLockOrder(from, to, fromCur, toCur) ==
    sortUUIDs(dedupeUUIDs(<<from, getSystemAccountID(fromCur),
                            getSystemAccountID(toCur), to>>))

\* HandleDepositWebhook: GetAccountBalanceAndLocked(account) FOR UPDATE, then
\* (currencies permitting) UPDATE of the account row and of the system row.
DepositLockOrder(a, cur) ==
    IF AccountCurrency(a) # cur THEN <<a>> ELSE <<a, getSystemAccountID(cur)>>

\* handlePayoutSuccess / applyManualReviewConfirmation: DeductLockedFunds on
\* the user row, then UpdateAccountBalance on the system row.
PayoutSuccessLockOrder(a) == <<a, getSystemAccountID(AccountCurrency(a))>>

\* ---------------------------------------------------- transaction bodies
\* Mutant: the destination balance is never credited.
TransferTxNoCredit(d, t, from, to, amt, ref) ==
    IF AccountCurrency(from) # AccountCurrency(to) THEN Fail(d, "currency_mismatch")
    ELSE IF d.balance[from] < amt THEN Fail(d, "insufficient_funds")
    ELSE
    LET r1 == CreateTransaction(d, t, amt, AccountCurrency(from), "transfer", "PENDING", ref)
        r2 == Then(r1, LAMBDA x : InsertAuditLog(x, t, "created", "", "PENDING"))
        r3 == Then(r2, LAMBDA x : transitionTransactionState(x, t, "PROCESSING", "processing_started"))
        r4 == Then(r3, LAMBDA x : CreateEntry(x, t, from, amt, "debit"))
        r5 == Then(r4, LAMBDA x : CreateEntry(x, t, to, amt, "credit"))
        r6 == Then(r5, LAMBDA x : UpdateAccountBalance(x, from, -amt))
    IN Then(r6, LAMBDA x : transitionTransactionState(x, t, "COMPLETED", "completed"))

\* Transfer, the function passed to RunInTx (after the two LockAccount calls).
TransferTx(d, t, from, to, amt, ref) ==
    IF AccountCurrency(from) # AccountCurrency(to) THEN Fail(d, "currency_mismatch")
    ELSE IF d.balance[from] < amt THEN Fail(d, "insufficient_funds")
    ELSE
    LET r1 == CreateTransaction(d, t, amt, AccountCurrency(from), "transfer", "PENDING", ref)
        r2 == Then(r1, LAMBDA x : InsertAuditLog(x, t, "created", "", "PENDING"))
        r3 == Then(r2, LAMBDA x : transitionTransactionState(x, t, "PROCESSING", "processing_started"))
        r4 == Then(r3, LAMBDA x : CreateEntry(x, t, from, amt, "debit"))
        r5 == Then(r4, LAMBDA x : CreateEntry(x, t, to, amt, "credit"))
        r6 == Then(r5, LAMBDA x : UpdateAccountBalance(x, from, -amt))
        r7 == Then(r6, LAMBDA x : UpdateAccountBalance(x, to, amt))
    IN Then(r7, LAMBDA x : transitionTransactionState(x, t, "COMPLETED", "completed"))

\* Mutant: the receiver's credit entry carries the source amount instead of
\* the converted amount.
TransferExchangeTxSourceCredit(d, t, from, to, amt, fromCur, toCur, ref) ==
    IF AccountCurrency(from) # fromCur \/ AccountCurrency(to) # toCur
    THEN Fail(d, "currency_mismatch")
    ELSE IF d.balance[from] < amt THEN Fail(d, "insufficient_funds")
    ELSE
    LET liqSource == getSystemAccountID(fromCur)
        liqTarget == getSystemAccountID(toCur)
        amountTarget == Convert(amt, fromCur, toCur)
        r1 == CreateTransaction(d, t, amt, fromCur, "exchange", "PENDING", ref)
        r2 == Then(r1, LAMBDA x : InsertAuditLog(x, t, "created", "", "PENDING"))
        r3 == Then(r2, LAMBDA x : transitionTransactionState(x, t, "PROCESSING", "processing_started"))
        r4 == Then(r3, LAMBDA x : CreateEntry(x, t, from, amt, "debit"))
        r5 == Then(r4, LAMBDA x : CreateEntry(x, t, liqSource, amt, "credit"))
        r6 == Then(r5, LAMBDA x : CreateEntry(x, t, liqTarget, amountTarget, "debit"))
        r7 == Then(r6, LAMBDA x : CreateEntry(x, t, to, amt, "credit"))
        r8 == Then(r7, LAMBDA x : UpdateAccountBalance(x, from, -amt))
        r9 == Then(r8, LAMBDA x : UpdateAccountBalance(x, liqSource, amt))
        r10 == Then(r9, LAMBDA x : UpdateAccountBalance(x, liqTarget, -amountTarget))
        r11 == Then(r10, LAMBDA x : UpdateAccountBalance(x, to, amountTarget))
    IN Then(r11, LAMBDA x : transitionTransactionState(x, t, "COMPLETED", "completed"))

\* TransferExchange, the function passed to RunInTx (after the LockAccount loop).
TransferExchangeTx(d, t, from, to, amt, fromCur, toCur, ref) ==
    IF AccountCurrency(from) # fromCur \/ AccountCurrency(to) # toCur
    THEN Fail(d, "currency_mismatch")
    ELSE IF d.balance[from] < amt THEN Fail(d, "insufficient_funds")
    ELSE
    LET liqSource == getSystemAccountID(fromCur)
        liqTarget == getSystemAccountID(toCur)
        amountSource == amt
        amountTarget == Convert(amt, fromCur, toCur)
        r1 == CreateTransaction(d, t, amt, fromCur, "exchange", "PENDING", ref)
        r2 == Then(r1, LAMBDA x : InsertAuditLog(x, t, "created", "", "PENDING"))
        r3 == Then(r2, LAMBDA x : transitionTransactionState(x, t, "PROCESSING", "processing_started"))
        r4 == Then(r3, LAMBDA x : CreateEntry(x, t, from, amountSource, "debit"))
        r5 == Then(r4, LAMBDA x : CreateEntry(x, t, liqSource, amountSource, "credit"))
        r6 == Then(r5, LAMBDA x : CreateEntry(x, t, liqTarget, amountTarget, "debit"))
        r7 == Then(r6, LAMBDA x : CreateEntry(x, t, to, amountTarget, "credit"))
        r8 == Then(r7, LAMBDA x : UpdateAccountBalance(x, from, -amountSource))
        r9 == Then(r8, LAMBDA x : UpdateAccountBalance(x, liqSource, amountSource))
        r10 == Then(r9, LAMBDA x : UpdateAccountBalance(x, liqTarget, -amountTarget))
        r11 == Then(r10, LAMBDA x : UpdateAccountBalance(x, to, amountTarget))
    IN Then(r11, LAMBDA x : transitionTransactionState(x, t, "COMPLETED", "completed"))

\* HandleDepositWebhook, the function passed to RunInTx.
DepositTx(d, t, a, amt, cur, ref, retryExisting) ==
    IF AccountCurrency(a) # cur THEN Fail(d, "currency_mismatch")
    ELSE
    LET systemAccountID == getSystemAccountID(cur)
        r1 == IF retryExisting
              THEN transitionTransactionState(d, t, "PROCESSING", "retry_processing_started")
              ELSE Then(Then(CreateTransaction(d, t, amt, cur, "deposit", "PENDING", ref),
                             LAMBDA x : InsertAuditLog(x, t, "created", "", "PENDING")),
                        LAMBDA x : transitionTransactionState(x, t, "PROCESSING", "processing_started"))
        r2 == Then(r1, LAMBDA x : CreateEntry(x, t, systemAccountID, amt, "debit"))
        r3 == Then(r2, LAMBDA x : CreateEntry(x, t, a, amt, "credit"))
        r4 == Then(r3, LAMBDA x : UpdateAccountBalance(x, a, amt))
        r5 == Then(r4, LAMBDA x : UpdateAccountBalance(x, systemAccountID, -amt))
    IN Then(r5, LAMBDA x : transitionTransactionState(x, t, "COMPLETED", "completed"))

\* HandleDepositWebhook: RunInTx, and on failure of a new deposit the
\* transition to FAILED in a transaction of its own (errors ignored when the
\* row does not exist).
HandleDepositWebhookRun(d, t, a, amt, cur, ref, retryExisting) ==
    LET r == RunInTx(d, DepositTx(d, t, a, amt, cur, ref, retryExisting))
    IN IF r.ok \/ retryExisting THEN r
       ELSE LET f == RunInTx(r.db, transitionTransactionState(r.db, t, "FAILED", "failed"))
            IN Fail(f.db, r.err)

\* Mutant: the funds check looks at balance alone.
RequestPayoutTxIgnoringLocked(d, t, a, amt, cur, ref) ==
    IF d.balance[a] < amt THEN Fail(d, "insufficient_funds")
    ELSE IF AccountCurrency(a) # cur THEN Fail(d, "currency_mismatch")
    ELSE
    LET r1 == LockAccountFunds(d, a, amt)
        r2 == Then(r1, LAMBDA x : CreateTransaction(x, t, amt, cur, "payout", "PENDING", ref))
        r3 == Then(r2, LAMBDA x : InsertAuditLog(x, t, "created", "", "PENDING"))
    IN Then(r3, LAMBDA x : InsertPayout(x, t, a, amt))

\* RequestPayout, the function passed to RunInTx.
RequestPayoutTx(d, t, a, amt, cur, ref) ==
    IF d.balance[a] - d.locked[a] < amt THEN Fail(d, "insufficient_funds")
    ELSE IF AccountCurrency(a) # cur THEN Fail(d, "currency_mismatch")
    ELSE
    LET r1 == LockAccountFunds(d, a, amt)
        r2 == Then(r1, LAMBDA x : CreateTransaction(x, t, amt, cur, "payout", "PENDING", ref))
        r3 == Then(r2, LAMBDA x : InsertAuditLog(x, t, "created", "", "PENDING"))
    IN Then(r3, LAMBDA x : InsertPayout(x, t, a, amt))

\* applyManualReviewConfirmation
applyManualReviewConfirmation(d, p) ==
    LET a   == d.payout[p].account
        amt == d.payout[p].amount
        systemAccountID == getSystemAccountID(AccountCurrency(a))
        r1 == DeductLockedFunds(d, a, amt)
        r2 == Then(r1, LAMBDA x : CreateEntry(x, p, a, amt, "debit"))
        r3 == Then(r2, LAMBDA x : CreateEntry(x, p, systemAccountID, amt, "credit"))
        r4 == Then(r3, LAMBDA x : UpdateAccountBalance(x, systemAccountID, amt))
        r5 == Then(r4, LAMBDA x : transitionTransactionState(x, p, "COMPLETED", "manual_review_confirmed"))
    IN Then(r5, LAMBDA x : UpdatePayoutStatus(x, p, "COMPLETED", d.payout[p].gatewayRef))

\* applyManualReviewRefund
applyManualReviewRefund(d, p) ==
    LET a   == d.payout[p].account
        amt == d.payout[p].amount
        r1 == ReleaseAccountFundsSafe(d, a, amt)
        r2 == Then(r1, LAMBDA x : transitionTransactionState(x, p, "FAILED", "manual_review_refunded"))
    IN Then(r2, LAMBDA x : UpdatePayoutStatus(x, p, "FAILED", d.payout[p].gatewayRef))

\* ResolveManualReviewPayout, the function passed to RunInTx.
ResolveTx(d, p, decision) ==
    IF d.payout[p].status = "NONE" THEN Fail(d, "not_found")
    ELSE IF d.payout[p].status # "MANUAL_REVIEW" THEN Fail(d, "not_in_manual_review")
    ELSE IF decision = "confirm_sent" THEN applyManualReviewConfirmation(d, p)
    ELSE applyManualReviewRefund(d, p)

\* ------------------------------------------------------------ payout engine
\* handlePayoutSuccess, the function passed to RunInTx.
handlePayoutSuccessTx(d, p, gatewayRef) ==
    LET a   == d.payout[p].account
        amt == d.payout[p].amount
        systemAccountID == getSystemAccountID(AccountCurrency(a))
        r1 == DeductLockedFunds(d, a, amt)
        r2 == Then(r1, LAMBDA x : CreateEntry(x, p, a, amt, "debit"))
        r3 == Then(r2, LAMBDA x : CreateEntry(x, p, systemAccountID, amt, "credit"))
        r4 == Then(r3, LAMBDA x : UpdateAccountBalance(x, systemAccountID, amt))
        r5 == Then(r4, LAMBDA x : transitionTransactionState(x, p, "COMPLETED", "payout_completed"))
    IN Then(r5, LAMBDA x : UpdatePayoutStatus(x, p, "COMPLETED", gatewayRef))

\* markPayoutManualReview: status update on the pool connection, then the
\* audit note in a transaction of its own.  Every call uses the caller's
\* context: with a cancelled context the first statement fails and the
\* function returns.
markPayoutManualReview(d, p, gatewayRef, cancelled) ==
    IF cancelled THEN d
    ELSE LET r1 == UpdatePayoutStatus(d, p, "MANUAL_REVIEW", gatewayRef)
             r2 == RunInTx(r1.db, InsertAuditLog(r1.db, p, "payout_manual_review",
                                                            "PROCESSING", "PROCESSING"))
         IN r2.db

\* handlePayoutSuccess: [ok, err, db]; ok = FALSE is the error it returns.
\* dbError: the finalization transaction is lost to a transient database
\* error (connection reset, serialization failure) and rolls back.
handlePayoutSuccess(d, p, gatewayRef, cancelled, dbError) ==
    LET r == IF cancelled THEN Fail(d, "context_canceled")
             ELSE IF dbError THEN Fail(d, "db_error")
             ELSE RunInTx(d, handlePayoutSuccessTx(d, p, gatewayRef))
    IN IF r.ok THEN r
       ELSE Fail(markPayoutManualReview(d, p, gatewayRef, cancelled), r.err)

\* handlePayoutFailure, the function passed to RunInTx.
handlePayoutFailureTx(d, p) ==
    LET a   == d.payout[p].account
        amt == d.payout[p].amount
        r1 == ReleaseAccountFunds(d, a, amt)
        r2 == Then(r1, LAMBDA x : transitionTransactionState(x, p, "FAILED", "payout_failed"))
    IN Then(r2, LAMBDA x : UpdatePayoutStatus(x, p, "FAILED", "null"))

\* updatePayoutFailed: the fallback, statement by statement on the pool
\* connection (no enclosing transaction, no state machine).
updatePayoutFailed(d, p, cancelled) ==
    IF cancelled THEN d
    ELSE LET a   == d.payout[p].account
             amt == d.payout[p].amount
             r1 == ReleaseAccountFundsSafe(d, a, amt)
             r2 == UpdateTransactionStatus(r1.db, p, "FAILED")
             r3 == RunInTx(r2.db, InsertAuditLog(r2.db, p, "payout_failed_fallback",
                                                            "", "FAILED"))
         IN UpdatePayoutStatus(r3.db, p, "FAILED", "null").db

\* The statements of updatePayoutFailed that can fail one by one; each error
\* is logged and the function goes on.
FallbackStatements == {"release", "transaction", "audit", "payout"}

\* updatePayoutFailed with the statements in failed returning an error (the
\* audit row is written only after the transaction update succeeded).
updatePayoutFailedWith(d, p, failed) ==
    LET a   == d.payout[p].account
        amt == d.payout[p].amount
        d1 == IF "release" \in failed THEN d ELSE ReleaseAccountFundsSafe(d, a, amt).db
        d2 == IF "transaction" \in failed THEN d1
              ELSE UpdateTransactionStatus(d1, p, "FAILED").db
        d3 == IF "transaction" \in failed \/ "audit" \in failed THEN d2
              ELSE RunInTx(d2, InsertAuditLog(d2, p, "payout_failed_fallback", "", "FAILED")).db
    IN IF "payout" \in failed THEN d3
       ELSE UpdatePayoutStatus(d3, p, "FAILED", "null").db

handlePayoutFailure(d, p, cancelled, dbError) ==
    LET r == IF cancelled THEN Fail(d, "context_canceled")
             ELSE IF dbError THEN Fail(d, "db_error")
             ELSE RunInTx(d, handlePayoutFailureTx(d, p))
    IN IF r.ok THEN r.db ELSE updatePayoutFailed(d, p, cancelled)

Take(s, n) == SubSeq(s, 1, IF Len(s) < n THEN Len(s) ELSE n)

RECURSIVE SortedSeq(_)
SortedSeq(S) ==
    IF S = {} THEN <<>>
    ELSE LET m == CHOOSE x \in S : \A y \in S : x <= y
         IN <<m>> \o SortedSeq(S \ {m})

\* Mutant: a plain SELECT, without FOR UPDATE SKIP LOCKED.
GetPendingPayoutsUnlocked(d, pl, limit) ==
    Take(SortedSeq({p \in TxIds : d.payout[p].status = "PENDING"}), limit)

\* SELECT * FROM payouts WHERE status = 'PENDING' ORDER BY created_at ASC
\* FOR UPDATE SKIP LOCKED LIMIT $1   (payout ids ascend with created_at)
GetPendingPayouts(d, pl, limit) ==
    Take(SortedSeq({p \in TxIds : d.payout[p].status = "PENDING" /\ pl[p] = 0}), limit)

\* SELECT * FROM payouts WHERE status = 'PROCESSING' AND updated_at < $1
\* ORDER BY updated_at ASC FOR UPDATE SKIP LOCKED LIMIT $2
GetStaleProcessingPayouts(d, pl, limit) ==
    Take(SelectSeq(d.updOrder, LAMBDA p : p \in d.stale /\ pl[p] = 0), limit)

RECURSIVE recoverLoop(_, _)
recoverLoop(d, list) ==
    IF list = <<>> THEN Ok(d)
    ELSE LET p  == Head(list)
             r1 == UpdatePayoutStatus(d, p, "PENDING", "null")
             r2 == Then(r1, LAMBDA x : transitionTransactionState(x, p, "PENDING", "requeue_stale"))
         IN Then(r2, LAMBDA x : recoverLoop(x, Tail(list)))

\* recoverStaleProcessingPayouts
recoverStaleProcessingPayouts(d, pl, limit) ==
    RunInTx(d, recoverLoop(d, GetStaleProcessingPayouts(d, pl, limit)))

RECURSIVE requeueLoop(_, _)
requeueLoop(d, list) ==
    IF list = <<>> THEN Ok(d)
    ELSE LET p  == Head(list)
             r1 == UpdatePayoutStatus(d, p, "PENDING", "null")
             r2 == Then(r1, LAMBDA x : transitionTransactionState(x, p, "PENDING", "requeue_claimed"))
         IN Then(r2, LAMBDA x : requeueLoop(x, Tail(list)))

\* requeueClaimedPayouts (always called with context.Background())
requeueClaimedPayouts(d, list) ==
    RunInTx(d, requeueLoop(d, list))

RECURSIVE claimLoop(_, _)
claimLoop(d, list) ==
    IF list = <<>> THEN Ok(d)
    ELSE LET p  == Head(list)
             r1 == UpdatePayoutStatus(d, p, "PROCESSING", "null")
             r2 == Then(r1, LAMBDA x : transitionTransactionState(x, p, "PROCESSING", "processing_started"))
         IN Then(r2, LAMBDA x : claimLoop(x, Tail(list)))

\* claimPendingPayouts, the updates after GetPendingPayouts and the commit.
claimPendingPayouts(d, list) ==
    RunInTx(d, claimLoop(d, list))

\* ------------------------------------------------------- idempotency store
\* The handlers pass the Idempotency-Key header on as the reference id.
Keys == Refs

NoReqBody == [from |-> 0, to |-> 0, amount |-> 0]
NoHash    == [method |-> "", path |-> "", body |-> NoReqBody]
NoBody    == [txid |-> 0, error |-> ""]

\* idempotency_keys: a missing row, and the column defaults of a reserved one.
NoRecord == [exists |-> FALSE, hash |-> NoHash, inProgress |-> FALSE,
             status |-> 0, body |-> NoBody]
NoEnvelope == [present |-> FALSE, hash |-> NoHash, status |-> 0, body |-> NoBody]

\* hashRequest: sha256 over method | path | body, taken as collision free.
hashRequest(method, path, body) == [method |-> method, path |-> path, body |-> body]

\* Mutant: the envelope is cached without the response body.
cacheWithoutBody(redisV, key, hash, status, body) ==
    [redisV EXCEPT ![key] = [present |-> TRUE, hash |-> hash,
                             status |-> status, body |-> NoBody]]

\* Store.cache: SET key envelope with the TTL.
cache(redisV, key, hash, status, body) ==
    [redisV EXCEPT ![key] = [present |-> TRUE, hash |-> hash,
                             status |-> status, body |-> body]]

\* Mutant: the stored request_hash is never compared with the request's.
LookupIgnoringHash(idemV, redisV, key, requestHash) ==
    IF redisV[key].present
    THEN [err |-> "", status |-> redisV[key].status, body |-> redisV[key].body,
          servedBy |-> "redis", redis |-> redisV]
    ELSE IF ~idemV[key].exists
    THEN [err |-> "not_found", status |-> 0, body |-> NoBody,
          servedBy |-> "", redis |-> redisV]
    ELSE IF idemV[key].inProgress
    THEN [err |-> "in_progress", status |-> 0, body |-> NoBody,
          servedBy |-> "", redis |-> redisV]
    ELSE [err |-> "", status |-> idemV[key].status, body |-> idemV[key].body,
          servedBy |-> "postgres",
          redis |-> cache(redisV, key, idemV[key].hash, idemV[key].status,
                          idemV[key].body)]

\* Store.Lookup: [err, status, body, servedBy, redis]; err = "" is a hit.
Lookup(idemV, redisV, key, requestHash) ==
    IF redisV[key].present
    THEN IF redisV[key].hash # requestHash
         THEN [err |-> "hash_mismatch", status |-> 0, body |-> NoBody,
               servedBy |-> "", redis |-> redisV]
         ELSE [err |-> "", status |-> redisV[key].status, body |-> redisV[key].body,
               servedBy |-> "redis", redis |-> redisV]
    ELSE IF ~idemV[key].exists
    THEN [err |-> "not_found", status |-> 0, body |-> NoBody,
          servedBy |-> "", redis |-> redisV]
    ELSE IF idemV[key].hash # requestHash
    THEN [err |-> "hash_mismatch", status |-> 0, body |-> NoBody,
          servedBy |-> "", redis |-> redisV]
    ELSE IF idemV[key].inProgress
    THEN [err |-> "in_progress", status |-> 0, body |-> NoBody,
          servedBy |-> "", redis |-> redisV]
    ELSE [err |-> "", status |-> idemV[key].status, body |-> idemV[key].body,
          servedBy |-> "postgres",
          redis |-> cache(redisV, key, idemV[key].hash, idemV[key].status,
                          idemV[key].body)]

\* Mutant: a plain INSERT that overwrites the row of a key already reserved.
ReserveOverwriting(idemV, key, requestHash) ==
    [reserved |-> TRUE,
     idem |-> [idemV EXCEPT ![key] = [exists |-> TRUE, hash |-> requestHash,
                                      inProgress |-> TRUE, status |-> 0,
                                      body |-> NoBody]]]

\* Store.Reserve: INSERT ... ON CONFLICT (idempotency_key) DO NOTHING
\* RETURNING idempotency_key; no row returned means not reserved.
Reserve(idemV, key, requestHash) ==
    IF idemV[key].exists
    THEN [reserved |-> FALSE, idem |-> idemV]
    ELSE [reserved |-> TRUE,
          idem |-> [idemV EXCEPT ![key] = [exists |-> TRUE, hash |-> requestHash,
                                           inProgress |-> TRUE, status |-> 0,
                                           body |-> NoBody]]]

\* Store.Finalize: UPDATE ... WHERE idempotency_key = $4 AND request_hash = $5,
\* then cache of the returned row; no row is ErrNotFound.
Finalize(idemV, redisV, key, requestHash, status, body) ==
    IF idemV[key].exists /\ idemV[key].hash = requestHash
    THEN [err |-> "",
          idem |-> [idemV EXCEPT ![key].status = status, ![key].body = body,
                                 ![key].inProgress = FALSE],
          redis |-> cache(redisV, key, requestHash, status, body)]
    ELSE [err |-> "not_found", idem |-> idemV, redis |-> redisV]

NoOut == [status |-> 0, body |-> NoBody, replay |-> ""]

\* A request inside the middleware.  late: a request with this key and hash
\* had its response recorded before this one arrived.
RequestRec(phase, key, body, hash, late, out) ==
    [phase |-> phase, key |-> key, body |-> body, hash |-> hash,
     late |-> late, out |-> out]

IdleRequest == RequestRec("idle", 0, NoReqBody, NoHash, FALSE, NoOut)

\* ------------------------------------------------------------------- Init
ClientRec(op, from, to, amt, fromCur, toCur, ref, txid, retry, decision, locks) ==
    [op |-> op, from |-> from, to |-> to, amount |-> amt, fromCur |-> fromCur,
     toCur |-> toCur, ref |-> ref, txid |-> txid, retry |-> retry,
     decision |-> decision, locks |-> locks, held |-> 0]

\* models.PayoutResponse: the payout's id and status (0 = no response).
PayoutResponse(payoutID, status) == [payoutID |-> payoutID, status |-> status]
NoPayoutResponse == PayoutResponse(0, "")

IdleClient == ClientRec("idle", 0, 0, 0, "", "", 0, 0, FALSE, "", <<>>)

Init ==
    /\ balance = [a \in Accounts |-> InitBalance(a)]
    /\ locked = [a \in Accounts |-> 0]
    /\ tx = [t \in TxIds |-> NoTx]
    /\ payout = [t \in TxIds |-> NoPayout]
    /\ entries = EmptyBag
    /\ audit = EmptyBag
    /\ updOrder = <<>>
    /\ stale = {}
    /\ acctLock = [a \in Accounts |-> 0]
    /\ payLock = [t \in TxIds |-> 0]
    /\ client = [c \in Clients |-> IdleClient]
    /\ resp = [c \in Clients |-> "none"]
    /\ payoutResp = [c \in Clients |-> NoPayoutResponse]
    /\ wpc = [w \in Workers |-> "idle"]
    /\ claimed = [w \in Workers |-> <<>>]
    /\ ctxCancelled = [w \in Workers |-> FALSE]
    /\ sendCount = [t \in TxIds |-> 0]
    /\ gwOk = [t \in TxIds |-> FALSE]
    /\ reviewLog = {}
    /\ gwTimedOut = {}
    /\ faults = 0
    /\ idem = [k \in Keys |-> NoRecord]
    /\ redis = [k \in Keys |-> NoEnvelope]
    /\ http = [c \in Clients |-> IdleRequest]
    /\ handlerRuns = [k \in Keys |-> 0]
    /\ stopCh = [k \in BackgroundWorkers |-> "open"]
    /\ stopOnce = [k \in BackgroundWorkers |-> FALSE]
    /\ startPc = [k \in BackgroundWorkers |-> "none"]
    /\ batches = [k \in BackgroundWorkers |-> 0]
    /\ stopCalls = [k \in BackgroundWorkers |-> 0]
    /\ stopPanic = [k \in BackgroundWorkers |-> FALSE]
    /\ runCtxDone = FALSE

\* uuid.New(): an id no row uses (ids ascend with creation).  When every
\* reference is taken the insert fails on the unique index and the id is
\* never stored.
FreshTxId(d) ==
    IF \E t \in TxIds : d.tx[t].status = "NONE"
    THEN CHOOSE t \in TxIds :
            /\ d.tx[t].status = "NONE"
            /\ \A u \in TxIds : d.tx[u].status = "NONE" => t <= u
    ELSE 0

\* A return without a PayoutResponse (an error, or another operation's result).
Respond(c, code) ==
    /\ resp' = [resp EXCEPT ![c] = code]
    /\ payoutResp' = [payoutResp EXCEPT ![c] = NoPayoutResponse]

\* return &PayoutResponse{PayoutID: ..., Status: ...}, nil
RespondPayout(c, code, payoutID, status) ==
    /\ resp' = [resp EXCEPT ![c] = code]
    /\ payoutResp' = [payoutResp EXCEPT ![c] = PayoutResponse(payoutID, status)]
Start(c, rec) ==
    /\ client' = [client EXCEPT ![c] = rec]
    /\ Respond(c, "none")

\* ------------------------------------------- client requests: before RunInTx
\* Transfer: validation and the idempotency lookup (lines 52-73).
TransferStart(c, from, to, amt, ref) ==
    IF amt <= 0 \/ from = to
    THEN Respond(c, "invalid") /\ UNCHANGED client
    ELSE IF CheckTransactionIdempotency(DB, ref) # 0
    THEN Respond(c, "replay") /\ UNCHANGED client
    ELSE Start(c, ClientRec("Transfer", from, to, amt, "", "", ref, 0, FALSE, "",
                            AcctLocks(TransferLockOrder(from, to))))

\* Transfer called directly (no HTTP request in front of it).
Transfer(c, from, to, amt, ref) ==
    /\ client[c].op = "idle"
    /\ TransferStart(c, from, to, amt, ref)
    /\ UNCHANGED <<stopVars, httpVars, dbVars, lockVars, wrkVars, gwVars, faults>>

\* TransferExchange: validation, idempotency lookup, rate and liquidity
\* accounts (lines 210-253).
TransferExchange(c, from, to, amt, fromCur, toCur, ref) ==
    /\ client[c].op = "idle"
    /\ IF amt <= 0 \/ from = to \/ fromCur = toCur
       THEN Respond(c, "invalid") /\ UNCHANGED client
       ELSE IF CheckTransactionIdempotency(DB, ref) # 0
       THEN Respond(c, "replay") /\ UNCHANGED client
       ELSE Start(c, ClientRec("TransferExchange", from, to, amt, fromCur, toCur, ref,
                               0, FALSE, "",
                               AcctLocks(ExchangeLockOrder(from, to, fromCur, toCur))))
    /\ UNCHANGED <<stopVars, httpVars, dbVars, lockVars, wrkVars, gwVars, faults>>

\* HandleDepositWebhook: payload checks and the lookup by reference
\* (lines 61-133).
HandleDepositWebhook(c, a, amt, cur, ref) ==
    /\ client[c].op = "idle"
    /\ LET existing == CheckTransactionIdempotency(DB, ref) IN
       IF amt <= 0
       THEN Respond(c, "invalid") /\ UNCHANGED client
       ELSE IF existing # 0 /\ (\/ tx[existing].type # "deposit"
                                \/ tx[existing].amount # amt
                                \/ tx[existing].currency # cur)
       THEN Respond(c, "payload_mismatch") /\ UNCHANGED client
       ELSE IF existing # 0 /\ tx[existing].status = "COMPLETED"
       THEN Respond(c, "replay") /\ UNCHANGED client
       ELSE IF existing # 0 /\ tx[existing].status \in {"PENDING", "PROCESSING"}
       THEN Respond(c, "in_progress") /\ UNCHANGED client
       ELSE IF existing # 0 /\ tx[existing].status # "FAILED"
       THEN Respond(c, "error") /\ UNCHANGED client
       ELSE Start(c, ClientRec("HandleDepositWebhook", 0, a, amt, "", cur, ref,
                               existing, existing # 0, "",
                               AcctLocks(DepositLockOrder(a, cur))))
    /\ UNCHANGED <<stopVars, httpVars, dbVars, lockVars, wrkVars, gwVars, faults>>

\* A deposit transaction on record as FAILED under a reference.  A deposit
\* that fails inside HandleDepositWebhook rolls its own row back, so such a
\* row is one written outside the service, as the retry tests write it
\* (CreateTransaction with status FAILED).
FailedDepositOnRecord(amt, cur, ref) ==
    /\ ~RefTaken(DB, ref)
    /\ Install(CreateTransaction(DB, FreshTxId(DB), amt, cur, "deposit", "FAILED", ref).db)
    /\ UNCHANGED <<stopVars, httpVars, lockVars, cliVars, wrkVars, gwVars, faults>>

\* RequestPayout: validation and the idempotency lookup (lines 100-133).  A
\* reference whose transaction has no payout row falls through to RunInTx.
RequestPayout(c, a, amt, cur, ref) ==
    /\ client[c].op = "idle"
    /\ LET existing == CheckTransactionIdempotency(DB, ref) IN
       IF amt <= 0
       THEN Respond(c, "invalid") /\ UNCHANGED client
       ELSE IF existing # 0 /\ payout[existing].status # "NONE"
       THEN RespondPayout(c, "exists", existing, payout[existing].status) /\ UNCHANGED client
       ELSE Start(c, ClientRec("RequestPayout", a, 0, amt, cur, "", ref, 0, FALSE, "",
                               AcctLocks(<<a>>)))
    /\ UNCHANGED <<stopVars, httpVars, dbVars, lockVars, wrkVars, gwVars, faults>>

\* ResolveManualReviewPayout: decision check (lines 672-679); the
\* transaction starts with GetPayoutForUpdate.
ResolveManualReviewPayout(c, p, decision) ==
    /\ client[c].op = "idle"
    /\ IF decision \notin {"confirm_sent", "refund_failed"}
       THEN Respond(c, "invalid") /\ UNCHANGED client
       ELSE Start(c, ClientRec("Resolve", 0, 0, 0, "", "", 0, p, FALSE, decision,
                   <<PayRes(p)>> \o
                   AcctLocks(IF payout[p].status = "NONE" THEN <<>>
                             ELSE IF decision = "confirm_sent"
                             THEN PayoutSuccessLockOrder(payout[p].account)
                             ELSE <<payout[p].account>>)))
    /\ UNCHANGED <<stopVars, httpVars, dbVars, lockVars, wrkVars, gwVars, faults>>

\* ------------------------------------------------- row locks of a request
NextLock(c) == client[c].locks[client[c].held + 1]

Holder(res) == IF res[1] = "acct" THEN acctLock[res[2]] ELSE payLock[res[2]]

\* Resolve returns right after GetPayoutForUpdate when the payout is missing
\* or not in MANUAL_REVIEW: it takes no account lock.
EarlyExit(c) ==
    /\ client[c].op = "Resolve"
    /\ client[c].held >= 1
    /\ payout[client[c].txid].status # "MANUAL_REVIEW"

WantsLock(c) ==
    /\ client[c].op # "idle"
    /\ client[c].held < Len(client[c].locks)
    /\ ~EarlyExit(c)

\* One locking statement: SELECT ... FOR UPDATE or the first UPDATE of a row.
AcquireLock(c) ==
    /\ WantsLock(c)
    /\ Holder(NextLock(c)) \in {0, c}
    /\ IF NextLock(c)[1] = "acct"
       THEN /\ acctLock' = [acctLock EXCEPT ![NextLock(c)[2]] = c]
            /\ UNCHANGED payLock
       ELSE /\ payLock' = [payLock EXCEPT ![NextLock(c)[2]] = c]
            /\ UNCHANGED acctLock
    /\ client' = [client EXCEPT ![c].held = @ + 1]
    /\ UNCHANGED <<stopVars, httpVars, dbVars, resp, payoutResp, wrkVars, gwVars, faults>>

ReleaseLocks(c) ==
    /\ acctLock' = [a \in Accounts |-> IF acctLock[a] = c THEN 0 ELSE acctLock[a]]
    /\ payLock' = [p \in TxIds |-> IF payLock[p] = c THEN 0 ELSE payLock[p]]

Waiting(c) == WantsLock(c) /\ Holder(NextLock(c)) \notin {0, c}

RECURSIVE Follow(_, _)
Follow(c, n) ==
    IF n = 0 THEN c
    ELSE IF c \in Clients /\ Waiting(c) THEN Follow(Holder(NextLock(c)), n - 1)
    ELSE 0

\* c waits for a lock whose holder waits, in a cycle, for a lock c holds.
Deadlocked(c) == \E n \in 1..NumClients : Follow(c, n) = c

\* ------------------------------------------------ the rest of the request
RunRequest(d, rec) ==
    CASE rec.op = "Transfer" ->
            RunInTx(d, TransferTx(d, FreshTxId(d), rec.from, rec.to,
                                             rec.amount, rec.ref))
      [] rec.op = "TransferExchange" ->
            RunInTx(d, TransferExchangeTx(d, FreshTxId(d), rec.from, rec.to,
                                    rec.amount, rec.fromCur, rec.toCur, rec.ref))
      [] rec.op = "HandleDepositWebhook" ->
            HandleDepositWebhookRun(d, IF rec.retry THEN rec.txid ELSE FreshTxId(d),
                                    rec.to, rec.amount, rec.toCur, rec.ref, rec.retry)
      [] rec.op = "RequestPayout" ->
            RunInTx(d, RequestPayoutTx(d, FreshTxId(d), rec.from, rec.amount,
                                                  rec.fromCur, rec.ref))
      [] rec.op = "Resolve" ->
            RunInTx(d, ResolveTx(d, rec.txid, rec.decision))

\* What the caller gets back.  Transfer and TransferExchange turn a unique
\* violation into the committed transaction of the same reference.
ResponseOf(rec, r) ==
    IF r.ok THEN "ok"
    ELSE IF /\ rec.op \in {"Transfer", "TransferExchange"}
            /\ r.err = "unique_violation"
            /\ CheckTransactionIdempotency(r.db, rec.ref) # 0
    THEN "replay"
    ELSE r.err

\* The statements after the last lock, and COMMIT or ROLLBACK.
Finish(c) ==
    /\ client[c].op # "idle"
    /\ client[c].held = Len(client[c].locks) \/ EarlyExit(c)
    /\ LET r == RunRequest(DB, client[c]) IN
          /\ Install(r.db)
          /\ IF client[c].op = "RequestPayout" /\ r.ok
             THEN RespondPayout(c, "ok", FreshTxId(DB), "PENDING")
             ELSE Respond(c, ResponseOf(client[c], r))
    /\ ReleaseLocks(c)
    /\ client' = [client EXCEPT ![c] = IdleClient]
    /\ UNCHANGED <<stopVars, httpVars, wrkVars, gwVars, faults>>

\* The database breaks a lock cycle by aborting one of its transactions with
\* a deadlock error (40P01), which the request returns to its caller.
DeadlockAbort(c) ==
    /\ Deadlocked(c)
    /\ ReleaseLocks(c)
    /\ client' = [client EXCEPT ![c] = IdleClient]
    /\ Respond(c, "deadlock")
    /\ UNCHANGED <<stopVars, httpVars, dbVars, wrkVars, gwVars, faults>>

\* ---------------------------------------------------- idempotency middleware
\* The request leaves the middleware with a response.
Reply(c, status, body, replay) ==
    http' = [http EXCEPT ![c].phase = "idle",
                         ![c].out = [status |-> status, body |-> body,
                                     replay |-> replay]]

Conflict(c, type) == Reply(c, 409, [txid |-> 0, error |-> type], "")

\* POST /v1/transfers/internal arrives: key, body, hashRequest (lines 163-183).
HttpRequest(c, key, body) ==
    /\ http[c].phase = "idle"
    /\ client[c].op = "idle"
    /\ LET h == hashRequest("POST", "/v1/transfers/internal", body) IN
       http' = [http EXCEPT ![c] =
                   RequestRec("lookup", key, body, h,
                              idem[key].exists /\ ~idem[key].inProgress
                                 /\ idem[key].hash = h,
                              NoOut)]
    /\ UNCHANGED <<stopVars, dbVars, lockVars, cliVars, wrkVars, gwVars, faults,
                   idem, redis, handlerRuns>>

\* store.Lookup and the branches on its result (lines 184-210).
MwLookup(c) ==
    /\ http[c].phase = "lookup"
    /\ LET r == Lookup(idem, redis, http[c].key, http[c].hash) IN
          /\ redis' = r.redis
          /\ CASE r.err = "" -> Reply(c, r.status, r.body, r.servedBy)
               [] r.err = "hash_mismatch" -> Conflict(c, "idempotency/key-conflict")
               [] r.err = "in_progress" -> http' = [http EXCEPT ![c].phase = "wait"]
               [] OTHER -> http' = [http EXCEPT ![c].phase = "reserve"]
    /\ UNCHANGED <<stopVars, dbVars, lockVars, cliVars, wrkVars, gwVars, faults,
                   idem, handlerRuns>>

\* store.Reserve and the branch on reserved (lines 212-231).
MwReserve(c) ==
    /\ http[c].phase = "reserve"
    /\ LET r == Reserve(idem, http[c].key, http[c].hash) IN
          /\ idem' = r.idem
          /\ http' = [http EXCEPT ![c].phase = IF r.reserved THEN "handler" ELSE "wait"]
    /\ UNCHANGED <<stopVars, dbVars, lockVars, cliVars, wrkVars, gwVars, faults,
                   redis, handlerRuns>>

\* WaitForCompletion: one Lookup of the polling loop.
MwWaitLookup(c) ==
    /\ http[c].phase = "wait"
    /\ LET r == Lookup(idem, redis, http[c].key, http[c].hash) IN
          /\ redis' = r.redis
          /\ CASE r.err = "" -> Reply(c, r.status, r.body, r.servedBy)
               [] r.err = "in_progress" -> http' = [http EXCEPT ![c].phase = "select"]
               [] OTHER -> Conflict(c, "idempotency/in-progress")
    /\ UNCHANGED <<stopVars, dbVars, lockVars, cliVars, wrkVars, gwVars, faults,
                   idem, handlerRuns>>

\* WaitForCompletion: the select on ctx.Done() and the ticker.
MwWaitSelect(c, done) ==
    /\ http[c].phase = "select"
    /\ IF done THEN Conflict(c, "idempotency/in-progress")
       ELSE http' = [http EXCEPT ![c].phase = "wait"]
    /\ UNCHANGED <<stopVars, dbVars, lockVars, cliVars, wrkVars, gwVars, faults,
                   idem, redis, handlerRuns>>

\* next.ServeHTTP: MakeInternalTransfer decodes the body and calls
\* svc.Transfer with the Idempotency-Key as reference id.
MakeInternalTransfer(c) ==
    /\ http[c].phase = "handler"
    /\ TransferStart(c, http[c].body.from, http[c].body.to, http[c].body.amount,
                     http[c].key)
    /\ handlerRuns' = [handlerRuns EXCEPT ![http[c].key] = @ + 1]
    /\ http' = [http EXCEPT ![c].phase = "running"]
    /\ UNCHANGED <<stopVars, dbVars, lockVars, wrkVars, gwVars, faults, idem, redis>>

\* MakeInternalTransfer: the status it writes for the result of svc.Transfer.
TransferStatus(result) ==
    IF result \in {"ok", "replay"} THEN 201
    ELSE IF result \in {"insufficient_funds", "invalid", "currency_mismatch"} THEN 400
    ELSE 500

\* MakeInternalTransfer: the body it writes, the transaction or the problem.
TransferBody(d, result, ref) ==
    IF result \in {"ok", "replay"}
    THEN [txid |-> CheckTransactionIdempotency(d, ref), error |-> ""]
    ELSE IF TransferStatus(result) = 400 THEN [txid |-> 0, error |-> result]
    ELSE [txid |-> 0, error |-> "transfer/internal-failure"]

\* The handler has written its response through the recorder; store.Finalize
\* (lines 233-250).  A Finalize error is logged and the response stands.
MwFinalize(c) ==
    /\ http[c].phase = "running"
    /\ client[c].op = "idle"
    /\ resp[c] # "none"
    /\ LET status == TransferStatus(resp[c])
           body   == TransferBody(DB, resp[c], http[c].key)
           r      == Finalize(idem, redis, http[c].key, http[c].hash, status, body) IN
          /\ idem' = r.idem
          /\ redis' = r.redis
          /\ Reply(c, status, body, "")
    /\ UNCHANGED <<stopVars, dbVars, lockVars, cliVars, wrkVars, gwVars, faults, handlerRuns>>

\* The same after the client has gone away: the request context is cancelled,
\* store.Finalize is called with it and fails, the error is logged (lines
\* 243-246) and the middleware returns.
MwFinalizeCancelled(c) ==
    /\ http[c].phase = "running"
    /\ client[c].op = "idle"
    /\ resp[c] # "none"
    /\ faults < MaxFaults
    /\ faults' = faults + 1
    /\ Reply(c, TransferStatus(resp[c]), TransferBody(DB, resp[c], http[c].key), "")
    /\ UNCHANGED <<stopVars, dbVars, lockVars, cliVars, wrkVars, gwVars, idem, redis,
                   handlerRuns>>

\* The bodies sent to POST /v1/transfers/internal.
TransferBodies == {[from |-> Alice, to |-> Bob, amount |-> amt] : amt \in Amounts}

\* The TTL of a cached envelope runs out.
RedisExpire(key) ==
    /\ redis[key].present
    /\ redis' = [redis EXCEPT ![key] = NoEnvelope]
    /\ UNCHANGED <<stopVars, dbVars, lockVars, cliVars, wrkVars, gwVars, faults,
                   idem, http, handlerRuns>>

\* ------------------------------------------------------------ payout worker
\* A worker statement that writes a row waits while a client transaction
\* holds the lock of that row.
RowsFree(accts, pays) ==
    /\ \A a \in accts : acctLock[a] = 0
    /\ \A p \in pays : payLock[p] = 0

SeqSet(s) == {s[i] : i \in 1..Len(s)}

\* ProcessPayouts returns; the worker loop calls it again on its next tick
\* (a stopped worker is replaced by a new one with a live context).
Return(w) ==
    /\ wpc' = [wpc EXCEPT ![w] = "idle"]
    /\ claimed' = [claimed EXCEPT ![w] = <<>>]
    /\ ctxCancelled' = [ctxCancelled EXCEPT ![w] = FALSE]

\* ProcessPayouts, lines 220-223: recoverStaleProcessingPayouts, and the
\* return of its error.
WRecover(w) ==
    /\ wpc[w] = "idle"
    /\ LET r == recoverStaleProcessingPayouts(DB, payLock, BatchSize) IN
          /\ Install(r.db)
          /\ IF r.ok
             THEN wpc' = [wpc EXCEPT ![w] = "claim"] /\ UNCHANGED <<claimed, ctxCancelled>>
             ELSE Return(w)
    /\ UNCHANGED <<stopVars, httpVars, lockVars, cliVars, faults, gwVars>>

\* claimPendingPayouts: BEGIN and GetPendingPayouts, which locks the rows it
\* returns.  A cancelled context fails the call and ProcessPayouts returns.
WClaimSelect(w) ==
    /\ wpc[w] = "claim"
    /\ IF ctxCancelled[w]
       THEN Return(w) /\ UNCHANGED payLock
       ELSE LET list == GetPendingPayouts(DB, payLock, BatchSize) IN
            /\ payLock' = [p \in TxIds |-> IF p \in SeqSet(list) THEN w ELSE payLock[p]]
            /\ claimed' = [claimed EXCEPT ![w] = list]
            /\ wpc' = [wpc EXCEPT ![w] = "claiming"]
            /\ UNCHANGED ctxCancelled
    /\ UNCHANGED <<stopVars, httpVars, dbVars, acctLock, cliVars, faults, gwVars>>

\* claimPendingPayouts: the updates and COMMIT, then lines 224-230.
WClaimCommit(w) ==
    /\ wpc[w] = "claiming"
    /\ payLock' = [p \in TxIds |-> IF payLock[p] = w THEN 0 ELSE payLock[p]]
    /\ LET r == IF ctxCancelled[w] THEN Fail(DB, "context_canceled")
                ELSE claimPendingPayouts(DB, claimed[w]) IN
          /\ Install(r.db)
          /\ IF r.ok /\ claimed[w] # <<>>
             THEN wpc' = [wpc EXCEPT ![w] = "loop"] /\ UNCHANGED <<claimed, ctxCancelled>>
             ELSE Return(w)
    /\ UNCHANGED <<stopVars, httpVars, acctLock, cliVars, faults, gwVars>>

\* Head of the loop, lines 233-239: ctx.Err(), requeue of claimed[i:] with
\* context.Background().
WLoop(w) ==
    /\ wpc[w] = "loop"
    /\ IF claimed[w] = <<>>
       THEN Return(w) /\ UNCHANGED dbVars
       ELSE IF ctxCancelled[w]
       THEN /\ RowsFree({}, SeqSet(claimed[w]))
            /\ Install(requeueClaimedPayouts(DB, claimed[w]).db)
            /\ Return(w)
       ELSE /\ wpc' = [wpc EXCEPT ![w] = "fetch"]
            /\ UNCHANGED <<dbVars, claimed, ctxCancelled>>
    /\ UNCHANGED <<stopVars, httpVars, lockVars, cliVars, faults, gwVars>>

\* Lines 241-252: GetTransaction and the call of gateway.SendPayout.  With a
\* cancelled context GetTransaction fails and handlePayoutFailure is called
\* with that context.
WSend(w) ==
    /\ wpc[w] = "fetch"
    /\ LET p == Head(claimed[w]) IN
       IF ctxCancelled[w]
       THEN /\ Install(handlePayoutFailure(DB, p, TRUE, FALSE))
            /\ claimed' = [claimed EXCEPT ![w] = Tail(@)]
            /\ wpc' = [wpc EXCEPT ![w] = "loop"]
            /\ UNCHANGED sendCount
       ELSE /\ sendCount' = [sendCount EXCEPT ![p] = @ + 1]
            /\ wpc' = [wpc EXCEPT ![w] = "sending"]
            /\ UNCHANGED <<dbVars, claimed>>
    /\ UNCHANGED <<stopVars, httpVars, lockVars, cliVars, faults, ctxCancelled, gwOk, reviewLog,
                   gwTimedOut>>

\* What SendPayout returns: a reference, an error, the error of the cancelled
\* context.
GatewayOutcomes == {"sent", "declined", "canceled"}

\* SendPayout gives up waiting for the gateway's answer after the request has
\* gone out: it returns a plain timeout error ("timeout") or one that wraps
\* context.DeadlineExceeded ("deadline").
GatewayTimeouts == {"timeout", "deadline"}

\* Lines 252-273: the gateway's answer and what the loop does with it.
WFinish(w, outcome, dbError) ==
    /\ wpc[w] = "sending"
    /\ outcome = "canceled" => ctxCancelled[w]
    /\ outcome \in GatewayTimeouts => ~ctxCancelled[w] /\ faults < MaxFaults
    /\ dbError => outcome \in {"sent", "declined"} /\ ~ctxCancelled[w] /\ faults < MaxFaults
    /\ faults' = IF dbError \/ outcome \in GatewayTimeouts THEN faults + 1 ELSE faults
    /\ gwTimedOut' = IF outcome \in GatewayTimeouts
                     THEN gwTimedOut \cup {Head(claimed[w])} ELSE gwTimedOut
    /\ LET p == Head(claimed[w])
           a == payout[p].account
           sys == getSystemAccountID(AccountCurrency(a)) IN
       CASE outcome \in {"canceled", "deadline"} ->
              /\ RowsFree({}, {p})
              /\ Install(requeueClaimedPayouts(DB, <<p>>).db)
              /\ Return(w)
              /\ UNCHANGED <<gwOk, reviewLog>>
         [] outcome \in {"declined", "timeout"} ->
              /\ ctxCancelled[w] \/ RowsFree({a}, {p})
              /\ Install(handlePayoutFailure(DB, p, ctxCancelled[w], dbError))
              /\ claimed' = [claimed EXCEPT ![w] = Tail(@)]
              /\ wpc' = [wpc EXCEPT ![w] = "loop"]
              /\ UNCHANGED <<ctxCancelled, gwOk, reviewLog>>
         [] outcome = "sent" ->
              /\ ctxCancelled[w] \/ RowsFree({a, sys}, {p})
              /\ LET r == handlePayoutSuccess(DB, p, "ref", ctxCancelled[w], dbError) IN
                    /\ Install(r.db)
                    /\ reviewLog' = IF r.ok THEN reviewLog ELSE reviewLog \cup {p}
              /\ gwOk' = [gwOk EXCEPT ![p] = TRUE]
              /\ claimed' = [claimed EXCEPT ![w] = Tail(@)]
              /\ wpc' = [wpc EXCEPT ![w] = "loop"]
              /\ UNCHANGED ctxCancelled
    /\ UNCHANGED <<stopVars, httpVars, lockVars, cliVars, sendCount>>

\* Lines 252-261 with a database that fails on and off: the gateway declines,
\* the transaction of handlePayoutFailure fails, and so do the statements in
\* failed of updatePayoutFailed.
WFinishFallback(w, failed) ==
    /\ wpc[w] = "sending"
    /\ ~ctxCancelled[w]
    /\ failed # {}
    /\ faults < MaxFaults
    /\ faults' = faults + 1
    /\ LET p == Head(claimed[w]) IN
          /\ RowsFree({payout[p].account}, {p})
          /\ Install(updatePayoutFailedWith(DB, p, failed))
    /\ claimed' = [claimed EXCEPT ![w] = Tail(@)]
    /\ wpc' = [wpc EXCEPT ![w] = "loop"]
    /\ UNCHANGED <<stopVars, httpVars, lockVars, cliVars, ctxCancelled, gwVars>>

\* The worker's context is cancelled (Stop, shutdown signal) while
\* ProcessPayouts runs.
Cancel(w) ==
    /\ wpc[w] # "idle"
    /\ ~ctxCancelled[w]
    /\ faults < MaxFaults
    /\ faults' = faults + 1
    /\ ctxCancelled' = [ctxCancelled EXCEPT ![w] = TRUE]
    /\ UNCHANGED <<stopVars, httpVars, dbVars, lockVars, cliVars, wpc, claimed, gwVars>>

\* The worker's process dies inside ProcessPayouts: its open transaction is
\* aborted, the rows it had committed as PROCESSING stay as they are, and a
\* new worker takes its place.
Crash(w) ==
    /\ wpc[w] # "idle"
    /\ faults < MaxFaults
    /\ Return(w)
    /\ payLock' = [p \in TxIds |-> IF payLock[p] = w THEN 0 ELSE payLock[p]]
    /\ UNCHANGED <<stopVars, httpVars, dbVars, acctLock, cliVars, gwVars, faults>>

\* Time passes: the least recently updated PROCESSING payout becomes older
\* than stalePayoutRecoveryWindow.
StaleWindowElapses ==
    /\ \E i \in 1..Len(updOrder) :
          /\ updOrder[i] \notin stale
          /\ \A j \in 1..(i - 1) : updOrder[j] \in stale
          /\ stale' = stale \cup {updOrder[i]}
    /\ UNCHANGED <<stopVars, httpVars, balance, locked, tx, payout, entries, audit, updOrder,
                   lockVars, cliVars, wrkVars, gwVars>>

\* The same within the budget of faults of a run.
Age ==
    /\ faults < MaxFaults
    /\ faults' = faults + 1
    /\ StaleWindowElapses

\* The same where a slow gateway call is the ordinary case, not a fault.
Elapse ==
    /\ StaleWindowElapses
    /\ UNCHANGED faults

\* ------------------------------------------ background worker start and stop
\* A panic ends the process.
Panicked == \E k \in BackgroundWorkers : stopPanic[k]

\* Run: go w.Start(ctx), and Start up to its loop.  The reconciliation
\* worker runs once at startup.  Run returns w.Stop.
WorkerRun(k) ==
    /\ ~Panicked
    /\ startPc[k] = "none"
    /\ startPc' = [startPc EXCEPT ![k] = "loop"]
    /\ batches' = [batches EXCEPT ![k] = IF k = "reconciliation" THEN 1 ELSE 0]
    /\ UNCHANGED <<stopCh, stopOnce, stopCalls, stopPanic, runCtxDone>>
    /\ UNCHANGED <<httpVars, dbVars, lockVars, cliVars, wrkVars, gwVars, faults>>

\* Start, case <-ticker.C: processBatch / runOnce.  select takes any ready
\* case, so a tick can win over a closed stop channel.
WorkerTick(k) ==
    /\ ~Panicked
    /\ startPc[k] = "loop"
    /\ batches[k] < MaxBatches
    /\ batches' = [batches EXCEPT ![k] = @ + 1]
    /\ UNCHANGED <<stopCh, stopOnce, startPc, stopCalls, stopPanic, runCtxDone>>
    /\ UNCHANGED <<httpVars, dbVars, lockVars, cliVars, wrkVars, gwVars, faults>>

\* Start, case <-ctx.Done() and case <-w.stopCh: return.
WorkerReturn(k) ==
    /\ ~Panicked
    /\ startPc[k] = "loop"
    /\ runCtxDone \/ stopCh[k] = "closed"
    /\ startPc' = [startPc EXCEPT ![k] = "returned"]
    /\ UNCHANGED <<stopCh, stopOnce, batches, stopCalls, stopPanic, runCtxDone>>
    /\ UNCHANGED <<httpVars, dbVars, lockVars, cliVars, wrkVars, gwVars, faults>>

\* Stop (also the function Run returned).  PayoutWorker.Stop is
\* close(w.stopCh); ReconciliationWorker.Stop is w.stopOnce.Do(close).
\* Closing a closed channel panics.
WorkerStop(k) ==
    /\ ~Panicked
    /\ stopCalls[k] < MaxStopCalls
    /\ stopCalls' = [stopCalls EXCEPT ![k] = @ + 1]
    /\ IF k = "reconciliation" /\ stopOnce[k]
       THEN UNCHANGED <<stopCh, stopOnce, stopPanic>>
       ELSE /\ stopOnce' = [stopOnce EXCEPT ![k] = (k = "reconciliation")]
            /\ IF stopCh[k] = "closed"
               THEN stopPanic' = [stopPanic EXCEPT ![k] = TRUE] /\ UNCHANGED stopCh
               ELSE stopCh' = [stopCh EXCEPT ![k] = "closed"] /\ UNCHANGED stopPanic
    /\ UNCHANGED <<startPc, batches, runCtxDone>>
    /\ UNCHANGED <<httpVars, dbVars, lockVars, cliVars, wrkVars, gwVars, faults>>

\* The application cancels the context it passed to Run.
CancelRunCtx ==
    /\ ~Panicked
    /\ ~runCtxDone
    /\ runCtxDone' = TRUE
    /\ UNCHANGED <<stopCh, stopOnce, startPc, batches, stopCalls, stopPanic>>
    /\ UNCHANGED <<httpVars, dbVars, lockVars, cliVars, wrkVars, gwVars, faults>>

\* ------------------------------------------------------------ specification
Next ==
    \/ \E c \in Clients, from, to \in UserAccounts, amt \in Amounts, ref \in Refs :
          Transfer(c, from, to, amt, ref)
    \/ \E c \in Clients, from, to \in UserAccounts, amt \in Amounts,
          fromCur, toCur \in Currencies, ref \in Refs :
          TransferExchange(c, from, to, amt, fromCur, toCur, ref)
    \/ \E c \in Clients, a \in UserAccounts, amt \in Amounts, cur \in Currencies,
          ref \in Refs : HandleDepositWebhook(c, a, amt, cur, ref)
    \/ \E c \in Clients, a \in UserAccounts, amt \in Amounts, cur \in Currencies,
          ref \in Refs : RequestPayout(c, a, amt, cur, ref)
    \/ \E c \in Clients, p \in TxIds, decision \in {"confirm_sent", "refund_failed"} :
          ResolveManualReviewPayout(c, p, decision)
    \/ \E c \in Clients : AcquireLock(c)
    \/ \E c \in Clients : Finish(c)
    \/ \E c \in Clients : DeadlockAbort(c)
    \/ \E w \in Workers : WRecover(w)
    \/ \E w \in Workers : WClaimSelect(w)
    \/ \E w \in Workers : WClaimCommit(w)
    \/ \E w \in Workers : WLoop(w)
    \/ \E w \in Workers : WSend(w)
    \/ \E w \in Workers, outcome \in GatewayOutcomes, dbError \in BOOLEAN :
          WFinish(w, outcome, dbError)
    \/ \E w \in Workers, outcome \in GatewayTimeouts : WFinish(w, outcome, FALSE)
    \/ \E w \in Workers : Cancel(w)
    \/ \E w \in Workers : Crash(w)
    \/ Age
    \/ \E c \in Clients, key \in Keys, body \in TransferBodies : HttpRequest(c, key, body)
    \/ \E c \in Clients : MwLookup(c)
    \/ \E c \in Clients : MwReserve(c)
    \/ \E c \in Clients : MwWaitLookup(c)
    \/ \E c \in Clients, done \in BOOLEAN : MwWaitSelect(c, done)
    \/ \E c \in Clients : MakeInternalTransfer(c)
    \/ \E c \in Clients : MwFinalize(c)
    \/ \E key \in Keys : RedisExpire(key)
    \/ \E k \in BackgroundWorkers : WorkerRun(k)
    \/ \E k \in BackgroundWorkers : WorkerTick(k)
    \/ \E k \in BackgroundWorkers : WorkerReturn(k)
    \/ \E k \in BackgroundWorkers : WorkerStop(k)
    \/ CancelRunCtx

Spec == Init /\ [][Next]_vars

\* Bidirectional transfer workload between two accounts of one currency.
NextTransfers ==
    \/ \E c \in Clients, from, to \in {Alice, Bob}, amt \in Amounts, ref \in Refs :
          Transfer(c, from, to, amt, ref)
    \/ \E c \in Clients : AcquireLock(c)
    \/ \E c \in Clients : Finish(c)

SpecTransfers == Init /\ [][NextTransfers]_vars

\* The payout lifecycle: requests and manual-review resolutions issued by
\* one client task, the workers, gateway outcomes, database errors,
\* cancellation and the recovery window.
Operator == CHOOSE c \in Clients : TRUE

NextPayouts ==
    \/ \E amt \in Amounts, ref \in Refs : RequestPayout(Operator, Alice, amt, "USD", ref)
    \/ \E p \in TxIds, decision \in {"confirm_sent", "refund_failed"} :
          ResolveManualReviewPayout(Operator, p, decision)
    \/ AcquireLock(Operator)
    \/ Finish(Operator)
    \/ \E w \in Workers : WRecover(w)
    \/ \E w \in Workers : WClaimSelect(w)
    \/ \E w \in Workers : WClaimCommit(w)
    \/ \E w \in Workers : WLoop(w)
    \/ \E w \in Workers : WSend(w)
    \/ \E w \in Workers, outcome \in GatewayOutcomes, dbError \in BOOLEAN :
          WFinish(w, outcome, dbError)
    \/ \E w \in Workers : Cancel(w)
    \/ Age

SpecPayouts == Init /\ [][NextPayouts]_vars

\* N workers over the requested payouts with a gateway that succeeds, no
\* shutdown and every batch finished inside the recovery window.
NextP8 ==
    \/ \E c \in Clients, amt \in Amounts, ref \in Refs :
          RequestPayout(c, Alice, amt, "USD", ref)
    \/ \E c \in Clients : AcquireLock(c)
    \/ \E c \in Clients : Finish(c)
    \/ \E w \in Workers : WRecover(w)
    \/ \E w \in Workers : WClaimSelect(w)
    \/ \E w \in Workers : WClaimCommit(w)
    \/ \E w \in Workers : WLoop(w)
    \/ \E w \in Workers : WSend(w)
    \/ \E w \in Workers : WFinish(w, "sent", FALSE)

SpecP8 == Init /\ [][NextP8]_vars

\* Every operation that writes the ledger, issued one request at a time, with
\* one worker running beside it.  Cancellation and the recovery window write
\* no entries and are left to SpecPayouts.
Courier == CHOOSE w \in Workers : TRUE

NextLedger ==
    \/ \E from, to \in {Alice, Bob}, amt \in Amounts, ref \in Refs :
          Transfer(Operator, from, to, amt, ref)
    \/ \E from, to \in UserAccounts, amt \in Amounts, ref \in Refs :
          TransferExchange(Operator, from, to, amt, AccountCurrency(from),
                           AccountCurrency(to), ref)
    \/ \E a \in UserAccounts, amt \in Amounts, ref \in Refs :
          HandleDepositWebhook(Operator, a, amt, AccountCurrency(a), ref)
    \/ \E amt \in Amounts, ref \in Refs :
          RequestPayout(Operator, Alice, amt, "USD", ref)
    \/ \E p \in TxIds, decision \in {"confirm_sent", "refund_failed"} :
          ResolveManualReviewPayout(Operator, p, decision)
    \/ AcquireLock(Operator)
    \/ Finish(Operator)
    \/ WRecover(Courier)
    \/ WClaimSelect(Courier)
    \/ WClaimCommit(Courier)
    \/ WLoop(Courier)
    \/ WSend(Courier)
    \/ \E outcome \in GatewayOutcomes, dbError \in BOOLEAN :
          WFinish(Courier, outcome, dbError)

SpecLedger == Init /\ [][NextLedger]_vars

\* Concurrent requests that lock several account rows.
NextLocks ==
    \/ \E c \in Clients, from, to \in {Alice, Bob}, amt \in Amounts, ref \in Refs :
          Transfer(c, from, to, amt, ref)
    \/ \E c \in Clients, from, to \in {Bob, Carol}, amt \in Amounts, ref \in Refs :
          TransferExchange(c, from, to, amt, AccountCurrency(from),
                           AccountCurrency(to), ref)
    \/ \E c \in Clients, a \in {Alice, Bob}, amt \in Amounts, ref \in Refs :
          HandleDepositWebhook(c, a, amt, AccountCurrency(a), ref)
    \/ \E c \in Clients : AcquireLock(c)
    \/ \E c \in Clients : Finish(c)
    \/ \E c \in Clients : DeadlockAbort(c)

SpecLocks == Init /\ [][NextLocks]_vars

\* Transfers through POST /v1/transfers/internal behind the middleware.
NextIdem ==
    \/ \E c \in Clients, key \in Keys, body \in TransferBodies : HttpRequest(c, key, body)
    \/ \E c \in Clients : MwLookup(c)
    \/ \E c \in Clients : MwReserve(c)
    \/ \E c \in Clients : MwWaitLookup(c)
    \/ \E c \in Clients, done \in BOOLEAN : MwWaitSelect(c, done)
    \/ \E c \in Clients : MakeInternalTransfer(c)
    \/ \E c \in Clients : AcquireLock(c)
    \/ \E c \in Clients : Finish(c)
    \/ \E c \in Clients : MwFinalize(c)
    \/ \E key \in Keys : RedisExpire(key)

SpecIdem == Init /\ [][NextIdem]_vars

\* The same with clients that may disconnect while their request is served.
NextDisconnect ==
    \/ \E c \in Clients, key \in Keys, body \in TransferBodies : HttpRequest(c, key, body)
    \/ \E c \in Clients : MwLookup(c)
    \/ \E c \in Clients : MwReserve(c)
    \/ \E c \in Clients : MwWaitLookup(c)
    \/ \E c \in Clients, done \in BOOLEAN : MwWaitSelect(c, done)
    \/ \E c \in Clients : MakeInternalTransfer(c)
    \/ \E c \in Clients : AcquireLock(c)
    \/ \E c \in Clients : Finish(c)
    \/ \E c \in Clients : MwFinalize(c)
    \/ \E c \in Clients : MwFinalizeCancelled(c)
    \/ \E key \in Keys : RedisExpire(key)

SpecDisconnect == Init /\ [][NextDisconnect]_vars

\* The gateway-timeout drill: payouts requested by one client task, the
\* workers, and a gateway that answers or times out after the send.
NextDrill ==
    \/ \E amt \in Amounts, ref \in Refs : RequestPayout(Operator, Alice, amt, "USD", ref)
    \/ AcquireLock(Operator)
    \/ Finish(Operator)
    \/ \E w \in Workers : WRecover(w)
    \/ \E w \in Workers : WClaimSelect(w)
    \/ \E w \in Workers : WClaimCommit(w)
    \/ \E w \in Workers : WLoop(w)
    \/ \E w \in Workers : WSend(w)
    \/ \E w \in Workers : WFinish(w, "sent", FALSE)
    \/ \E w \in Workers, outcome \in GatewayTimeouts : WFinish(w, outcome, FALSE)

SpecDrill == Init /\ [][NextDrill]_vars

\* Stale recovery: payouts requested by one client task, workers that may
\* die inside ProcessPayouts, the recovery window, and a gateway that
\* succeeds.
NextRecovery ==
    \/ \E amt \in Amounts, ref \in Refs : RequestPayout(Operator, Alice, amt, "USD", ref)
    \/ AcquireLock(Operator)
    \/ Finish(Operator)
    \/ \E w \in Workers : WRecover(w)
    \/ \E w \in Workers : WClaimSelect(w)
    \/ \E w \in Workers : WClaimCommit(w)
    \/ \E w \in Workers : WLoop(w)
    \/ \E w \in Workers : WSend(w)
    \/ \E w \in Workers : WFinish(w, "sent", FALSE)
    \/ \E w \in Workers : Crash(w)
    \/ Age

SpecRecovery == Init /\ [][NextRecovery]_vars

\* Manual review: a one-micro payout of Alice, finalizations that fail and
\* leave payouts in MANUAL_REVIEW, gateway calls that outlast the recovery
\* window, and operators
\* resolving the same payouts concurrently with either decision.
NextReview ==
    \/ RequestPayout(Operator, Alice, 1, "USD", 1)
    \/ \E c \in Clients, p \in TxIds, decision \in {"confirm_sent", "refund_failed"} :
          ResolveManualReviewPayout(c, p, decision)
    \/ \E c \in Clients : AcquireLock(c)
    \/ \E c \in Clients : Finish(c)
    \/ \E w \in Workers : WRecover(w)
    \/ \E w \in Workers : WClaimSelect(w)
    \/ \E w \in Workers : WClaimCommit(w)
    \/ \E w \in Workers : WLoop(w)
    \/ \E w \in Workers : WSend(w)
    \/ \E w \in Workers, outcome \in {"sent", "declined"}, dbError \in BOOLEAN :
          WFinish(w, outcome, dbError)
    \/ Elapse

SpecReview == Init /\ [][NextReview]_vars

\* The background workers started with Run and stopped with Stop, the
\* function Run returned, or the context.
NextStop ==
    \/ \E k \in BackgroundWorkers : WorkerRun(k)
    \/ \E k \in BackgroundWorkers : WorkerTick(k)
    \/ \E k \in BackgroundWorkers : WorkerReturn(k)
    \/ \E k \in BackgroundWorkers : WorkerStop(k)
    \/ CancelRunCtx

SpecStop == Init /\ [][NextStop]_vars

\* One worker that keeps ticking over payouts requested at any time, with a
\* gateway that answers every call and a database that failed at most once.
NextStarve ==
    \/ \E ref \in Refs : RequestPayout(Operator, Alice, 1, "USD", ref)
    \/ AcquireLock(Operator)
    \/ Finish(Operator)
    \/ WRecover(Courier)
    \/ WClaimSelect(Courier)
    \/ WClaimCommit(Courier)
    \/ WLoop(Courier)
    \/ WSend(Courier)
    \/ \E outcome \in {"sent", "declined"}, dbError \in BOOLEAN :
          WFinish(Courier, outcome, dbError)
    \/ \E failed \in SUBSET FallbackStatements : WFinishFallback(Courier, failed)
    \/ Elapse

\* The ticker of PayoutWorker.Start fires for ever, every call returns, and
\* time passes.
SpecStarve ==
    /\ Init /\ [][NextStarve]_vars
    /\ WF_vars(AcquireLock(Operator))
    /\ WF_vars(Finish(Operator))
    /\ WF_vars(WRecover(Courier))
    /\ WF_vars(WClaimSelect(Courier))
    /\ WF_vars(WClaimCommit(Courier))
    /\ WF_vars(WLoop(Courier))
    /\ WF_vars(WSend(Courier))
    /\ WF_vars(\E outcome \in {"sent", "declined"} : WFinish(Courier, outcome, FALSE))
    /\ WF_vars(Elapse)

\* Deposit webhooks delivered concurrently and repeatedly for a few
\* references, with FAILED deposits on record to retry.
NextWebhook ==
    \/ \E c \in Clients, a \in {Alice, Bob}, amt \in Amounts, cur \in Currencies,
          ref \in Refs : HandleDepositWebhook(c, a, amt, cur, ref)
    \/ \E amt \in Amounts, ref \in Refs : FailedDepositOnRecord(amt, "USD", ref)
    \/ \E c \in Clients : AcquireLock(c)
    \/ \E c \in Clients : Finish(c)

SpecWebhook == Init /\ [][NextWebhook]_vars

\* ------------------------------------------------------------------ claims
\* C1: when SendPayout has returned success and handlePayoutSuccess returns
\* an error (the step that logs "local finalization failed"), the payout is
\* in MANUAL_REVIEW after that step, no balance has changed and the
\* account's locked_micros still holds the payout amount.
C1_FailedFinalizationGoesToManualReview ==
    [][\A p \in TxIds :
          (p \in reviewLog' /\ p \notin reviewLog) =>
             /\ payout'[p].status = "MANUAL_REVIEW"
             /\ balance' = balance
             /\ locked' = locked
             /\ locked'[payout[p].account] >= payout[p].amount]_vars

\* C2: once SendPayout has returned success for a payout, no step returns the
\* payout to PENDING and no step calls SendPayout for it again.
C2_NoSilentRetry ==
    [][\A p \in TxIds :
          gwOk[p] =>
             /\ sendCount'[p] = sendCount[p]
             /\ payout'[p].status = "PENDING" => payout[p].status = "PENDING"]_vars

RECURSIVE SignedSum(_, _)
SignedSum(S, B) ==
    IF S = {} THEN 0
    ELSE LET e == CHOOSE x \in S : TRUE
         IN CopiesIn(e, B) * (IF e.direction = "credit" THEN e.amount ELSE 0 - e.amount)
            + SignedSum(S \ {e}, B)

\* C4: the credit entries minus the debit entries of the whole ledger sum to 0
\* in every state.
C4_LedgerSumsToZero == SignedSum(BagToSet(entries), entries) = 0

\* An exchange whose two legs differ in amount and a payout finalization are
\* both committed.
C4_Witness ==
    /\ \E t \in TxIds : tx[t].type = "exchange" /\ tx[t].status = "COMPLETED"
    /\ \E e1, e2 \in BagToSet(entries) : e1.tx = e2.tx /\ e1.amount # e2.amount
    /\ \E p \in TxIds : payout[p].status = "COMPLETED"

\* C5: every user account has locked_micros <= balance.
C5_LockedWithinBalance == \A a \in UserAccounts : locked[a] <= balance[a]

\* C6: every account has locked_micros >= 0.
C6_LockedNonNegative == \A a \in Accounts : locked[a] >= 0

\* A payout was sent twice and failed, and the second release found nothing
\* left to release.
C6_Witness ==
    \E p \in TxIds :
       /\ payout[p].status = "FAILED"
       /\ sendCount[p] >= 2
       /\ locked[payout[p].account] = 0

\* C7: every user account has balance >= 0.
C7_UserBalanceNonNegative == \A a \in UserAccounts : balance[a] >= 0

\* C8: under transfers between the two accounts in both directions, the sum
\* of the two balances stays what it was.
C8_SumConserved ==
    balance[Alice] + balance[Bob] = InitBalance(Alice) + InitBalance(Bob)

\* Transfers in both directions have committed.
C8_Witness ==
    /\ \E e \in BagToSet(entries) : e.direction = "debit" /\ e.account = Alice
    /\ \E e \in BagToSet(entries) : e.direction = "debit" /\ e.account = Bob

\* The account rows of a lock sequence are in ascending id order.
Ascending(locks) ==
    \A i, j \in 1..Len(locks) :
       (i < j /\ locks[i][1] = "acct" /\ locks[j][1] = "acct") => locks[i][2] < locks[j][2]

\* C9: every transfer in flight takes its two account locks in ascending id
\* order, no transfer is in a lock cycle, some transfer in flight can always
\* take its next step, and no client has received a deadlock error.
C9_TransfersNeverDeadlock ==
    /\ \A c \in Clients : client[c].op = "Transfer" => Ascending(client[c].locks)
    /\ \A c \in Clients : ~Deadlocked(c)
    /\ (\E c \in Clients : client[c].op # "idle") =>
          \E c \in Clients : client[c].op # "idle" /\ ~Waiting(c)
    /\ \A c \in Clients : resp[c] # "deadlock"

\* An A->B and a B->A transfer are in flight together and one waits for the
\* other's lock.
C9_Witness ==
    \E c1, c2 \in Clients :
       /\ client[c1].op = "Transfer" /\ client[c1].from = Alice /\ client[c1].to = Bob
       /\ client[c2].op = "Transfer" /\ client[c2].from = Bob /\ client[c2].to = Alice
       /\ client[c1].held = 1
       /\ Waiting(c2)

\* C10: every request in flight takes its account row locks in ascending id
\* order and no request is in a lock cycle on account rows.
C10_AscendingLocksNoDeadlock ==
    /\ \A c \in Clients : client[c].op # "idle" => Ascending(client[c].locks)
    /\ \A c \in Clients : ~Deadlocked(c)

\* The request of c has been answered.
Answered(c) == http[c].phase = "idle" /\ http[c].out.status # 0

\* The answer of c is the response recorded under its key.
AnswerIsRecord(c) ==
    /\ idem[http[c].key].exists
    /\ ~idem[http[c].key].inProgress
    /\ idem[http[c].key].hash = http[c].hash
    /\ http[c].out.status = idem[http[c].key].status
    /\ http[c].out.body = idem[http[c].key].body

\* C11: under concurrent requests, the wrapped handler is entered at most
\* once per Idempotency-Key, at most one request of a key is inside the
\* handler, and every answered request either carries the recorded response
\* (the winner its own, the others a replay) or is a 409.
C11_HandlerAtMostOnce ==
    /\ \A k \in Keys : handlerRuns[k] <= 1
    /\ \A c1, c2 \in Clients :
          (/\ c1 # c2
           /\ http[c1].phase \in {"handler", "running"}
           /\ http[c2].phase \in {"handler", "running"})
          => http[c1].key # http[c2].key
    /\ \A c \in Clients :
          Answered(c) => http[c].out.status = 409 \/ AnswerIsRecord(c)

\* Two requests with one key and one body were in flight together; one ran
\* the handler and the other was answered with a replay.
C11_Witness ==
    \E c1, c2 \in Clients :
       /\ c1 # c2
       /\ http[c1].key = http[c2].key /\ http[c1].hash = http[c2].hash
       /\ Answered(c1) /\ http[c1].out.replay = "" /\ http[c1].out.status = 201
       /\ Answered(c2) /\ http[c2].out.replay # "" /\ ~http[c2].late

RECURSIVE CompletedAmount(_)
CompletedAmount(T) ==
    IF T = {} THEN 0
    ELSE LET t == CHOOSE x \in T : TRUE
         IN (IF tx[t].status = "COMPLETED" THEN tx[t].amount ELSE 0)
            + CompletedAmount(T \ {t})

\* C12: a transfer request that arrives after a request with the same key and
\* body was answered gets the recorded response, body and status, as a
\* replay; any two answered requests of one key and body that are not 409
\* carry the same body; each key has at most one transaction and the
\* balances have moved by exactly the amounts of the committed transactions.
C12_SequentialReplay ==
    /\ \A c \in Clients :
          (Answered(c) /\ http[c].late) =>
             /\ AnswerIsRecord(c)
             /\ http[c].out.replay # ""
    /\ \A c1, c2 \in Clients :
          (/\ Answered(c1) /\ Answered(c2)
           /\ http[c1].key = http[c2].key /\ http[c1].hash = http[c2].hash
           /\ http[c1].out.status # 409 /\ http[c2].out.status # 409)
          => http[c1].out.body = http[c2].out.body
    /\ \A t1, t2 \in TxIds :
          (tx[t1].status # "NONE" /\ tx[t2].status # "NONE" /\ tx[t1].ref = tx[t2].ref)
          => t1 = t2
    /\ balance[Alice] = InitBalance(Alice) - CompletedAmount(TxIds)
    /\ balance[Bob] = InitBalance(Bob) + CompletedAmount(TxIds)

\* A transfer was made and answered 201, and a later request with the same
\* key and body was answered from the record.
C12_Witness ==
    \E c1, c2 \in Clients :
       /\ c1 # c2
       /\ http[c1].key = http[c2].key /\ http[c1].hash = http[c2].hash
       /\ Answered(c1) /\ http[c1].out.replay = "" /\ http[c1].out.status = 201
       /\ Answered(c2) /\ http[c2].late /\ http[c2].out.replay # ""
       /\ balance[Alice] < InitBalance(Alice)

\* The key of c's request is held by a record with another request hash.
KeyReused(c) ==
    /\ http[c].key \in Keys
    /\ idem[http[c].key].exists
    /\ idem[http[c].key].hash # http[c].hash

\* C13: a request whose key is recorded with another hash never enters the
\* handler and, once answered, has a 409 that is not a replay; the step that
\* answers it changes no row of the database and of the idempotency table;
\* and no step changes the hash of a record or any field of a completed one.
C13_HashMismatchConflict ==
    /\ [](\A c \in Clients :
            KeyReused(c) =>
               /\ http[c].phase \notin {"handler", "running"}
               /\ Answered(c) => http[c].out.status = 409 /\ http[c].out.replay = "")
    /\ [][/\ \A c \in Clients :
               (KeyReused(c) /\ http'[c] # http[c]) =>
                  /\ idem' = idem
                  /\ handlerRuns' = handlerRuns
                  /\ <<balance, locked, tx, payout, entries, audit>>'
                        = <<balance, locked, tx, payout, entries, audit>>
          /\ \A k \in Keys :
               idem[k].exists =>
                  /\ idem'[k].hash = idem[k].hash
                  /\ ~idem[k].inProgress => idem'[k] = idem[k]]_vars

\* A request was answered 409 while the request that reserved its key with
\* another body was still in progress.
C13_Witness ==
    \E c \in Clients :
       /\ Answered(c) /\ http[c].out.status = 409
       /\ KeyReused(c)
       /\ idem[http[c].key].inProgress

TxStates == {"PENDING", "PROCESSING", "COMPLETED", "FAILED", "REVERSED"}

\* The edges of the state machine as the specification lists them.
LegalEdges ==
    {<<"PENDING", "PROCESSING">>, <<"PENDING", "FAILED">>,
     <<"PROCESSING", "PENDING">>, <<"PROCESSING", "COMPLETED">>,
     <<"PROCESSING", "FAILED">>, <<"PROCESSING", "REVERSED">>,
     <<"COMPLETED", "REVERSED">>,
     <<"FAILED", "PROCESSING">>, <<"FAILED", "REVERSED">>}

Illegal(current, next) == current # next /\ <<current, next>> \notin LegalEdges

\* The transaction fails and leaves the database as it was.
RolledBack(r) == ~r.ok /\ r.db = DB

\* C14: canTransition rejects every pair outside the table; in every
\* reachable database, for every transaction and every illegal target state,
\* the primitive inside RunInTx returns an error and leaves the database
\* unchanged, and so does each engine transaction that reaches an illegal
\* transition after its own writes (requeue, claim, success, failure).
C14_IllegalTransitionRollsBack ==
    /\ \A current, next \in TxStates :
          Illegal(current, next) => ~canTransition(current, next)
    /\ \A t \in TxIds, next \in TxStates :
          (tx[t].status # "NONE" /\ Illegal(tx[t].status, next)) =>
             RolledBack(RunInTx(DB, transitionTransactionState(DB, t, next, "probe")))
    /\ \A p \in TxIds :
          payout[p].status # "NONE" =>
             /\ Illegal(tx[p].status, "PENDING") =>
                   RolledBack(requeueClaimedPayouts(DB, <<p>>))
             /\ Illegal(tx[p].status, "PROCESSING") =>
                   RolledBack(claimPendingPayouts(DB, <<p>>))
             /\ Illegal(tx[p].status, "COMPLETED") =>
                   RolledBack(RunInTx(DB, handlePayoutSuccessTx(DB, p, "ref")))
             /\ Illegal(tx[p].status, "FAILED") =>
                   RolledBack(RunInTx(DB, handlePayoutFailureTx(DB, p)))

\* A payout sent twice was completed by one worker and declined for the
\* other while a second payout still held locked funds: the failure
\* transaction released funds, met COMPLETED -> FAILED and rolled back, and
\* the fallback ran.
C14_Witness ==
    \E p1, p2 \in TxIds :
       /\ p1 # p2
       /\ \E r \in BagToSet(audit) : r.tx = p1 /\ r.action = "payout_completed"
       /\ \E r \in BagToSet(audit) : r.tx = p1 /\ r.action = "payout_failed_fallback"
       /\ payout[p2].status = "PROCESSING"
       /\ locked[payout[p2].account] < payout[p2].amount

\* C15: every step that changes the status of a transaction changes it along
\* a legal edge of the state machine.
C15_StatusChangesAreLegalEdges ==
    [][\A t \in TxIds :
          (tx[t].status # "NONE" /\ tx'[t].status # tx[t].status) =>
             <<tx[t].status, tx'[t].status>> \in LegalEdges]_vars

\* C16: when a worker's ProcessPayouts returns from the dispatch loop with
\* its context cancelled, every payout it still held as claimed (the one
\* being attempted and those not yet attempted) is PENDING with its
\* transaction PENDING, and no locked funds were released by that step.
C16_CancellationRequeuesClaimed ==
    [][\A w \in Workers :
          (/\ wpc[w] \in {"loop", "fetch", "sending"}
           /\ wpc'[w] = "idle"
           /\ ctxCancelled[w])
          => /\ \A p \in SeqSet(claimed[w]) :
                   payout'[p].status = "PENDING" /\ tx'[p].status = "PENDING"
             /\ locked' = locked]_vars

\* C17: the step in which SendPayout times out after the send leaves the
\* payout in MANUAL_REVIEW with every account's locked_micros as it was, and
\* after that step no SendPayout is made for the payout again and its
\* account's locked_micros does not drop while it is unresolved.
C17_TimeoutForcesManualReview ==
    [][\A p \in TxIds :
          /\ (p \in gwTimedOut' /\ p \notin gwTimedOut) =>
                /\ payout'[p].status = "MANUAL_REVIEW"
                /\ locked' = locked
          /\ p \in gwTimedOut => sendCount'[p] = sendCount[p]]_vars

\* A payout that ProcessPayouts has requeued as stale.
Recovered(p) == \E r \in BagToSet(audit) : r.tx = p /\ r.action = "requeue_stale"

\* C18: the recovery step of ProcessPayouts sets every stale, unlocked
\* PROCESSING payout (up to batch_size of them) to PENDING with gateway_ref
\* null and its transaction from PROCESSING to PENDING; and while the gateway
\* succeeds on every call, a payout that was recovered is on its way to
\* COMPLETED (PENDING or PROCESSING) or is COMPLETED, never parked or failed.
C18_StaleRecovered ==
    /\ [][\A w \in Workers :
            (wpc[w] = "idle" /\ wpc'[w] = "claim" /\ Cardinality(stale) <= BatchSize) =>
               \A p \in stale :
                  (payout[p].status = "PROCESSING" /\ payLock[p] = 0) =>
                     /\ payout'[p].status = "PENDING"
                     /\ payout'[p].gatewayRef = "null"
                     /\ tx[p].status = "PROCESSING"
                     /\ tx'[p].status = "PENDING"]_vars
    /\ [](\A p \in TxIds :
            Recovered(p) => payout[p].status \in {"PENDING", "PROCESSING", "COMPLETED"})

\* Sum of the amounts of the payouts in P.
RECURSIVE PayoutAmount(_)
PayoutAmount(P) ==
    IF P = {} THEN 0
    ELSE LET p == CHOOSE q \in P : TRUE
         IN  payout[p].amount + PayoutAmount(P \ {p})

\* The payouts of account a whose status is in S.
PayoutsIn(a, S) == {p \in TxIds : payout[p].account = a /\ payout[p].status \in S}

\* C19: on an account whose only operations are payouts, once every payout
\* requested on it is COMPLETED or FAILED, balance is the opening balance
\* less the amounts of the COMPLETED payouts, locked_micros is back to zero
\* (each payout, COMPLETED or FAILED, took its amount off locked_micros once)
\* and the system account holds the amounts of the COMPLETED payouts.
C19_NetEffectByTerminalState ==
    PayoutsIn(Alice, {"PENDING", "PROCESSING", "MANUAL_REVIEW"}) = {} =>
       /\ balance[Alice] = InitBalance(Alice) - PayoutAmount(PayoutsIn(Alice, {"COMPLETED"}))
       /\ locked[Alice] = 0
       /\ balance[SysUSD] = InitBalance(SysUSD) + PayoutAmount(PayoutsIn(Alice, {"COMPLETED"}))

\* C20: the step that ends a RequestPayout (the statements it runs holding
\* the account's row lock) answers insufficient_funds and leaves every table
\* as it was when balance - locked_micros < amount; it changes nothing unless
\* it answers ok, and then locked_micros grows by exactly the amount; no other
\* step raises locked_micros; and with requests running concurrently on one
\* account locked_micros never exceeds balance.
C20_LockOnlyIfAvailable ==
    /\ [](\A a \in UserAccounts : locked[a] <= balance[a])
    /\ [][\A c \in Clients :
            (client[c].op = "RequestPayout" /\ client'[c].op = "idle") =>
               LET a   == client[c].from
                   amt == client[c].amount
               IN  /\ balance[a] - locked[a] < amt =>
                         resp'[c] = "insufficient_funds" /\ UNCHANGED dbVars
                   /\ resp'[c] # "ok" => UNCHANGED dbVars
                   /\ resp'[c] = "ok" =>
                         /\ balance[a] - locked[a] >= amt
                         /\ locked' = [locked EXCEPT ![a] = @ + amt]
                         /\ balance' = balance]_vars
    /\ [][\A a \in Accounts :
            locked'[a] > locked[a] =>
               \E c \in Clients :
                  /\ client[c].op = "RequestPayout" /\ client'[c].op = "idle"
                  /\ client[c].from = a /\ resp'[c] = "ok"]_vars

\* With nothing paid out yet, one request holds a lock on Alice's funds and
\* another was refused for the funds that lock leaves unavailable.
C20_Witness ==
    \E c1, c2 \in Clients :
       /\ resp[c1] = "ok" /\ resp[c2] = "insufficient_funds"
       /\ balance[Alice] = InitBalance(Alice)
       /\ locked[Alice] > 0

CreditEntries(t) ==
    LET S == {e \in BagToSet(entries) : e.tx = t /\ e.direction = "credit"}
    IN  BagCardinality([e \in S |-> CopiesIn(e, entries)])

\* The client's own step that returned code (its response changed to it).
Returned(c, code) == resp'[c] = code /\ resp[c] # code

\* C22: with deposits delivered concurrently and repeatedly, and FAILED
\* deposits retried: a reference has one transaction, whose row and reference
\* stay; a deposit transaction has one credit entry, of its amount, when it is
\* COMPLETED and none otherwise; each user balance is its opening balance
\* plus the credits entered on it; and a delivery answered as a replay
\* changes no table.
C22_DepositCreditedOnce ==
    /\ [](/\ \A t, u \in TxIds :
               (tx[t].status # "NONE" /\ tx[u].status # "NONE" /\ tx[t].ref = tx[u].ref)
                  => t = u
          /\ \A t \in TxIds :
               tx[t].type = "deposit" =>
                  /\ CreditEntries(t) = IF tx[t].status = "COMPLETED" THEN 1 ELSE 0
                  /\ \A e \in BagToSet(entries) : e.tx = t => e.amount = tx[t].amount
          /\ \A a \in UserAccounts :
               balance[a] = InitBalance(a)
                  + SignedSum({e \in BagToSet(entries) : e.account = a}, entries))
    /\ [][/\ \A t \in TxIds :
               tx[t].status # "NONE" =>
                  tx'[t].status # "NONE" /\ tx'[t].ref = tx[t].ref
          /\ \A c \in Clients : Returned(c, "replay") => UNCHANGED dbVars]_vars

\* Two deliveries retried one FAILED deposit at the same time: one completed
\* it under the transaction's own id, the other was turned away.
C22_Witness ==
    \E t \in TxIds, c1, c2 \in Clients :
       /\ \E r \in BagToSet(audit) : r.tx = t /\ r.action = "retry_processing_started"
       /\ tx[t].status = "COMPLETED"
       /\ resp[c1] = "ok"
       /\ resp[c2] = "invalid_transition"

\* C23: a deposit delivery that passed its lookup with no transaction under
\* its reference, and finds one committed when it comes to insert its own,
\* returns in_progress and changes no balance.
C23_DuplicateInsertInProgress ==
    [][\A c \in Clients :
          (/\ client[c].op = "HandleDepositWebhook"
           /\ ~client[c].retry
           /\ AccountCurrency(client[c].to) = client[c].toCur
           /\ client'[c].op = "idle"
           /\ RefTaken(DB, client[c].ref)) =>
              /\ resp'[c] = "in_progress"
              /\ balance' = balance]_vars

\* The delivery (a, amt, cur, ref) reuses the reference of a transaction that
\* is not a deposit of amt in cur to account a (the account a completed
\* deposit credited is the one its credit entry names).
PayloadDiffers(a, amt, cur, ref) ==
    LET existing == CheckTransactionIdempotency(DB, ref)
    IN  /\ existing # 0
        /\ \/ tx[existing].type # "deposit"
           \/ tx[existing].amount # amt
           \/ tx[existing].currency # cur
           \/ \E e \in BagToSet(entries) :
                 e.tx = existing /\ e.direction = "credit" /\ e.account # a

\* C24: a deposit delivery whose reference belongs to a transaction of
\* another type, amount, currency or account returns payload_mismatch and
\* changes no balance.
C24_ReferenceReuseRejected ==
    [][\A c \in Clients, a \in UserAccounts, amt \in Amounts, cur \in Currencies,
          ref \in Refs :
          (HandleDepositWebhook(c, a, amt, cur, ref) /\ PayloadDiffers(a, amt, cur, ref)) =>
             /\ resp'[c] = "payload_mismatch"
             /\ balance' = balance]_vars

\* C25: a Resolve call returns with the payout row lock held; unless the
\* payout it read is in MANUAL_REVIEW it returns NotInManualReview (not found
\* for a missing payout) and no row changes; a call that returns success
\* found the payout in MANUAL_REVIEW and leaves it COMPLETED or FAILED; and
\* no call succeeds on a payout whose transaction records an earlier
\* resolution.
Resolved(p) ==
    \E r \in BagToSet(audit) :
       r.tx = p /\ r.action \in {"manual_review_confirmed", "manual_review_refunded"}

C25_ResolveOnlyManualReview ==
    [][\A c \in Clients :
          (client[c].op = "Resolve" /\ client'[c].op = "idle") =>
             LET p == client[c].txid IN
                /\ payLock[p] = c
                /\ payout[p].status # "MANUAL_REVIEW" =>
                      /\ resp'[c] = IF payout[p].status = "NONE" THEN "not_found"
                                    ELSE "not_in_manual_review"
                      /\ dbVars' = dbVars
                /\ resp'[c] # "ok" => dbVars' = dbVars
                /\ resp'[c] = "ok" =>
                      /\ payout[p].status = "MANUAL_REVIEW"
                      /\ payout'[p].status \in {"COMPLETED", "FAILED"}
                      /\ ~Resolved(p)]_vars

EntriesOf(t) == {e \in BagToSet(entries) : e.tx = t}

EntryCount(t, direction) ==
    BagCardinality([e \in {x \in EntriesOf(t) : x.direction = direction} |->
                        CopiesIn(e, entries)])

C27_EntriesPerTransaction ==
    \A t \in TxIds :
       tx[t].status # "NONE" =>
          IF tx[t].type = "exchange"
          THEN /\ EntryCount(t, "debit") + EntryCount(t, "credit") <= 4
               /\ tx[t].status = "COMPLETED" =>
                     /\ EntryCount(t, "debit") = 2 /\ EntryCount(t, "credit") = 2
                     /\ \A cur \in Currencies :
                           SignedSum({e \in EntriesOf(t) : AccountCurrency(e.account) = cur},
                                     entries) = 0
          ELSE /\ EntryCount(t, "debit") + EntryCount(t, "credit") <= 2
               /\ tx[t].status = "COMPLETED" =>
                     /\ EntryCount(t, "debit") = 1 /\ EntryCount(t, "credit") = 1
                     /\ \A e \in EntriesOf(t) : e.amount = tx[t].amount

\* C28: an exchange that returns success has changed the balances by
\* exactly: sender - source_amount, source-currency liquidity account
\* + source_amount, target-currency liquidity account - target_amount,
\* receiver + target_amount, and has added exactly the four matching
\* entries, where target_amount is the largest whole number of micros not
\* above source_amount times the rate.
ExchangeEntries(t, from, to, liqSource, liqTarget, amountSource, amountTarget) ==
    SetToBag({[tx |-> t, account |-> from, amount |-> amountSource, direction |-> "debit"],
              [tx |-> t, account |-> liqSource, amount |-> amountSource, direction |-> "credit"],
              [tx |-> t, account |-> liqTarget, amount |-> amountTarget, direction |-> "debit"],
              [tx |-> t, account |-> to, amount |-> amountTarget, direction |-> "credit"]})

C28_ExchangeAmounts ==
    [][\A c \in Clients :
          (/\ client[c].op = "TransferExchange" /\ client'[c].op = "idle"
           /\ resp'[c] = "ok") =>
             LET rec == client[c]
                 liqSource == getSystemAccountID(rec.fromCur)
                 liqTarget == getSystemAccountID(rec.toCur)
                 num == RateNum(rec.fromCur, rec.toCur)
                 den == RateDen(rec.fromCur, rec.toCur)
             IN \E target \in 1..(2 * MaxAmount) :
                   /\ target * den <= rec.amount * num
                   /\ rec.amount * num < (target + 1) * den
                   /\ balance' = [a \in Accounts |->
                                    balance[a]
                                    - (IF a = rec.from THEN rec.amount ELSE 0)
                                    + (IF a = liqSource THEN rec.amount ELSE 0)
                                    - (IF a = liqTarget THEN target ELSE 0)
                                    + (IF a = rec.to THEN target ELSE 0)]
                   /\ entries' = entries (+) ExchangeEntries(FreshTxId(DB), rec.from, rec.to,
                                               liqSource, liqTarget, rec.amount, target)]_vars

\* A completed exchange of 2 USD micros at 0.92 whose receiver got 1 EUR
\* micro (1.84 truncated).
C28_Witness ==
    \E t \in TxIds :
       /\ tx[t].type = "exchange" /\ tx[t].status = "COMPLETED"
       /\ tx[t].amount = 2 /\ tx[t].currency = "USD"
       /\ CopiesIn([tx |-> t, account |-> Carol, amount |-> 1, direction |-> "credit"],
                   entries) = 1
       /\ CopiesIn([tx |-> t, account |-> Alice, amount |-> 2, direction |-> "debit"],
                   entries) = 1
       /\ balance[Carol] = 1
       /\ balance[SysEUR] = -1

\* C29: no call of Stop() panics, on either background worker, and a call
\* of Stop() after the first one leaves the stop channel, the worker's loop
\* and its batches as they were.
C29_StopIdempotent ==
    /\ [](\A k \in BackgroundWorkers : ~stopPanic[k])
    /\ [][\A k \in BackgroundWorkers :
             (stopCalls'[k] = stopCalls[k] + 1 /\ stopCalls[k] >= 1) =>
                /\ stopCh'[k] = stopCh[k]
                /\ startPc' = startPc
                /\ batches' = batches]_vars

\* C30: whenever handlePayoutFailure is called and its primary transaction
\* fails (cancelled context, database error, or a statement of it that
\* fails), the call leaves the account's locked_micros reduced by the
\* payout amount if it was at least that amount and unchanged otherwise,
\* and leaves the Transaction FAILED and the Payout FAILED.
PrimaryFails(w, dbError) ==
    \/ ctxCancelled[w]
    \/ dbError
    \/ ~RunInTx(DB, handlePayoutFailureTx(DB, Head(claimed[w]))).ok

FallbackDone(w) ==
    LET p   == Head(claimed[w])
        a   == payout[p].account
        amt == payout[p].amount
    IN /\ locked'[a] = IF locked[a] >= amt THEN locked[a] - amt ELSE locked[a]
       /\ locked'[a] >= 0
       /\ tx'[p].status = "FAILED"
       /\ payout'[p].status = "FAILED"

C30_FallbackLeavesFailed ==
    [][\A w \in Workers :
          /\ (WSend(w) /\ ctxCancelled[w]) => FallbackDone(w)
          /\ \A outcome \in {"declined", "timeout"}, dbError \in BOOLEAN :
                (WFinish(w, outcome, dbError) /\ PrimaryFails(w, dbError)) =>
                   FallbackDone(w)]_vars

\* C31: when a Transfer call finishes after another Transfer call with the
\* same reference, accounts and amount has committed, it changes no row and
\* returns the committed transaction (no error); and every reference has at
\* most one transaction, with one debit and one credit entry.
SameTransferCommitted(rec) ==
    \E t \in TxIds :
       /\ tx[t].ref = rec.ref /\ tx[t].type = "transfer" /\ tx[t].status = "COMPLETED"
       /\ tx[t].amount = rec.amount
       /\ CopiesIn([tx |-> t, account |-> rec.from, amount |-> rec.amount,
                    direction |-> "debit"], entries) = 1
       /\ CopiesIn([tx |-> t, account |-> rec.to, amount |-> rec.amount,
                    direction |-> "credit"], entries) = 1

C31_ConcurrentSameReference ==
    /\ [](\A t, u \in TxIds :
             (tx[t].status # "NONE" /\ tx[u].status # "NONE" /\ tx[t].ref = tx[u].ref)
                => t = u)
    /\ [](\A t \in TxIds : tx[t].type = "transfer" =>
             EntryCount(t, "debit") = 1 /\ EntryCount(t, "credit") = 1)
    /\ [][\A c \in Clients :
             (/\ client[c].op = "Transfer" /\ client'[c].op = "idle"
              /\ SameTransferCommitted(client[c])) =>
                /\ dbVars' = dbVars
                /\ resp'[c] = "replay"]_vars

\* C32: a RequestPayout call whose reference belongs to a transaction
\* without a payout row returns the error of the reference conflict and
\* changes no row (no funds locked, no transaction, no payout).
C32_ReferenceWithoutPayout ==
    [][\A c \in Clients :
          (/\ client[c].op = "RequestPayout" /\ client'[c].op = "idle"
           /\ CheckTransactionIdempotency(DB, client[c].ref) # 0
           /\ payout[CheckTransactionIdempotency(DB, client[c].ref)].status = "NONE") =>
             /\ dbVars' = dbVars
             /\ resp'[c] = "unique_violation"]_vars

\* C33: when a deposit delivered for a reference that has no transaction
\* fails, a transaction of that reference is on record with status FAILED
\* once the call has returned.
C33_FailedDepositRecorded ==
    [][\A c \in Clients :
          (/\ client[c].op = "HandleDepositWebhook" /\ client'[c].op = "idle"
           /\ ~client[c].retry
           /\ CheckTransactionIdempotency(DB, client[c].ref) = 0
           /\ resp'[c] # "ok") =>
             \E t \in TxIds : tx'[t].ref = client[c].ref /\ tx'[t].status = "FAILED"]_vars

\* The audit rows of transaction t that a step adds and that record a
\* change of state.
NewAuditRows(t) ==
    {r \in BagToSet(audit') :
        r.tx = t /\ r.prev # r.next /\ CopiesIn(r, audit') > CopiesIn(r, audit)}

AuditState(status) == IF status = "NONE" THEN "" ELSE status

\* C34: every step that commits a change of a transaction's status adds
\* audit rows that lead, one row per change, from the status before to the
\* status after, and a step that leaves the status alone adds no audit row
\* recording a change.
C34_AuditMatchesStatusChange ==
    [][\A t \in TxIds :
          LET rows == NewAuditRows(t)
              old  == AuditState(tx[t].status)
              new  == AuditState(tx'[t].status)
          IN IF old = new THEN rows = {}
             ELSE /\ \E r \in rows : r.prev = old
                  /\ \E r \in rows : r.next = new
                  /\ \A r \in rows :
                        /\ CopiesIn(r, audit') = CopiesIn(r, audit) + 1
                        /\ r.prev = old \/ \E q \in rows : q.next = r.prev
                        /\ r.next = new \/ \E q \in rows : q.prev = r.next]_vars

\* Worker w has claimed payout p and has not yet finished with it.
Dispatching(w, p) ==
    /\ wpc[w] \in {"loop", "fetch", "sending"}
    /\ p \in SeqSet(claimed[w])

\* C35: while a worker has a payout claimed and is still dispatching it, no
\* step of another worker returns that payout to PENDING, claims it or
\* sends it.
C35_NoRequeueOfLiveClaim ==
    [][\A w, v \in Workers, p \in TxIds :
          (w # v /\ Dispatching(w, p) /\ wpc'[v] # wpc[v]) =>
             /\ payout[p].status = "PROCESSING" => payout'[p].status = "PROCESSING"
             /\ p \notin SeqSet(claimed'[v])
             /\ sendCount'[p] = sendCount[p]]_vars

\* C36: in every committed state the locked_micros of an account is the sum
\* of the amounts of its payouts in PENDING, PROCESSING or MANUAL_REVIEW.
C36_LockedIsOpenPayouts ==
    \A a \in UserAccounts :
       locked[a] = PayoutAmount(PayoutsIn(a, {"PENDING", "PROCESSING", "MANUAL_REVIEW"}))

\* The transaction status that goes with a payout status.
TxStatusFor(payoutStatus) ==
    IF payoutStatus = "MANUAL_REVIEW" THEN "PROCESSING" ELSE payoutStatus

\* C37: in every committed state a payout and its transaction agree on
\* status: PENDING with PENDING, PROCESSING or MANUAL_REVIEW with PROCESSING,
\* COMPLETED with COMPLETED, FAILED with FAILED.
C37_PayoutAgreesWithTransaction ==
    \A p \in TxIds :
       payout[p].status # "NONE" => tx[p].status = TxStatusFor(payout[p].status)

\* The entries on account a that a step adds.
NewEntries(a) ==
    {e \in BagToSet(entries') : e.account = a /\ CopiesIn(e, entries') > CopiesIn(e, entries)}

\* C38: in every committed state the balance of each account is its opening
\* balance plus its credit entries minus its debit entries, and every step
\* that changes a balance adds exactly one entry on that account, of the
\* amount and the direction of the change.
C38_BalanceMirrorsEntries ==
    /\ [](\A a \in Accounts :
            balance[a] = InitBalance(a)
               + SignedSum({e \in BagToSet(entries) : e.account = a}, entries))
    /\ [][\A a \in Accounts :
            balance'[a] # balance[a] =>
               \E e \in NewEntries(a) :
                  /\ NewEntries(a) = {e}
                  /\ CopiesIn(e, entries') = CopiesIn(e, entries) + 1
                  /\ balance'[a] - balance[a] =
                        IF e.direction = "credit" THEN e.amount ELSE 0 - e.amount]_vars

\* A payout was completed, a deposit was credited and an exchange moved both
\* of its amounts.
C38_Witness ==
    /\ \E p \in TxIds : payout[p].status = "COMPLETED"
    /\ \E e \in BagToSet(entries) : e.account = SysEUR /\ e.direction = "debit"
    /\ balance[Alice] # InitBalance(Alice)

\* A payout that is open and whose transaction agrees with it: its own
\* recovery, claim and finalization steps can succeed.
Healthy(p) ==
    /\ payout[p].status \in {"PENDING", "PROCESSING"}
    /\ tx[p].status = payout[p].status

\* A payout whose recovery or claim step fails on every tick.
Stuck(p) ==
    /\ payout[p].status \in {"PENDING", "PROCESSING"}
    /\ tx[p].status # payout[p].status

\* C39: while the worker keeps ticking and the database and the gateway
\* answer, a payout that is PENDING or PROCESSING with its transaction in
\* step reaches COMPLETED, FAILED or MANUAL_REVIEW, whatever happens to the
\* steps of another payout.
C39_PayoutsGetProcessed ==
    \A p \in TxIds :
       Healthy(p) ~> (payout[p].status \in {"COMPLETED", "FAILED", "MANUAL_REVIEW"} \/ Stuck(p))

\* C40: a key is in_progress only while the request that reserved it is in
\* its handler or about to finalize: once that request has left the
\* middleware the key is finalized, so that no later request with the key
\* waits on it in vain.
C40_ReservedKeysGetFinalized ==
    \A key \in Keys :
       (idem[key].exists /\ idem[key].inProgress) =>
          \E c \in Clients : http[c].key = key /\ http[c].phase \in {"handler", "running"}
====
